---- MODULE Spec2Model ----
(***************************************************************************)
(* Archy MCP server: diagram text, the styling directives, the Mermaid     *)
(* syntax validator, the validate / AI-fix / rule-fix repair pipeline and  *)
(* the tool handlers of ArchyServer.                                       *)
(*                                                                         *)
(* A JavaScript string is modelled as a sequence of one-character strings, *)
(* so that String.prototype.includes, the anchored keyword regexp and the  *)
(* replace of the repair pipeline are computed character by character.     *)
(***************************************************************************)
EXTENDS Integers, Sequences, FiniteSets, TLC

VARIABLES
    apiKey,        \* OPENROUTER_API_KEY is set (module state read once at load)
    request,       \* the operation invoked last and its inputs
    response,      \* what that operation returned or threw
    calls,         \* the collaborator calls that operation made, in order
    openBrowsers,  \* browsers launched by puppeteer and not closed since
    tempDirs,      \* archy-* temporary directories left on disk
    clientDiagram, \* the diagram text the client received last from a generation tool
    pc,            \* where the running operation stands
    handlerCode,   \* the local variable mermaidCode of the running tool handler
    memfs          \* the volume of the memfs module, which every InMemoryGit uses

vars ==
    <<apiKey, request, response, calls, openBrowsers, tempDirs, clientDiagram, pc,
      handlerCode, memfs>>

(***************************************************************************)
(* Bounds of the model.                                                    *)
(***************************************************************************)
MaxChain == 2       \* how many times a result is fed back into the same function

\* the memfs volume before any clone: nothing at /repo
EmptyVolume == [repo |-> <<>>, writer |-> 0]

(***************************************************************************)
(* String primitives.                                                      *)
(***************************************************************************)
\* s.startsWith(p, i - 1): p occurs in s at the 1-based position i
MatchAt(s, p, i) ==
    /\ i >= 1
    /\ i + Len(p) - 1 <= Len(s)
    /\ \A k \in 1..Len(p) : s[i + k - 1] = p[k]

\* s.includes(p)
Includes(s, p) == \E i \in 1..(Len(s) + 1) : MatchAt(s, p, i)

\* the anchored test /^(p)/ on s
StartsWith(s, p) == MatchAt(s, p, 1)

\* number of (possibly overlapping) occurrences of p in s
Occurrences(s, p) == Cardinality({i \in 1..(Len(s) + 1) : MatchAt(s, p, i)})

(***************************************************************************)
(* String literals of the source.                                          *)
(***************************************************************************)
sigInitColon == <<"%", "%", "{", "i", "n", "i", "t", ":">>
sigInitSpace == <<"%", "%", "{", "i", "n", "i", "t", " ">>

\* The three directives open with "%%{", a newline and an indented "init: {"
\* and close with "}%%" and a blank line.  The JSON settings between them are
\* abridged to one key per directive; like the originals they contain no "%%{".
directiveHead ==
    <<"%", "%", "{", "\n", " ", " ", "i", "n", "i", "t", ":", " ", "{", "\n", " ", " ", " ",
      " ", "\"", "t", "h", "e", "m", "e", "\"", ":", " ", "\"", "b", "a", "s", "e", "\"", ",",
      "\n">>
colorBody == <<" ", " ", " ", " ", "\"", "p", "i", "e", "\"", ":", " ", "{", "}", "\n">>
layoutBody ==
    <<" ", " ", " ", " ", "\"", "g", "a", "n", "t", "t", "\"", ":", " ", "{", "}", "\n">>
allBody ==
    <<" ", " ", " ", " ", "\"", "p", "i", "e", "\"", ":", " ", "{", "}", ",", "\n", " ", " ",
      " ", " ", "\"", "g", "a", "n", "t", "t", "\"", ":", " ", "{", "}", "\n">>
directiveTail == <<" ", " ", "}", "\n", "}", "%", "%", "\n", "\n">>

colorContrastDirective == directiveHead \o colorBody \o directiveTail
cleanLayoutDirective == directiveHead \o layoutBody \o directiveTail
comprehensiveDirective == directiveHead \o allBody \o directiveTail

kwFlowchart == <<"f", "l", "o", "w", "c", "h", "a", "r", "t">>
kwSequenceDiagram ==
    <<"s", "e", "q", "u", "e", "n", "c", "e", "D", "i", "a", "g", "r", "a", "m">>
kwClassDiagram == <<"c", "l", "a", "s", "s", "D", "i", "a", "g", "r", "a", "m">>
kwStateDiagram == <<"s", "t", "a", "t", "e", "D", "i", "a", "g", "r", "a", "m">>
kwEntityRelationshipDiagram ==
    <<"e", "n", "t", "i", "t", "y", "R", "e", "l", "a", "t", "i", "o", "n", "s", "h", "i", "p",
      "D", "i", "a", "g", "r", "a", "m">>
kwUserJourney == <<"u", "s", "e", "r", "J", "o", "u", "r", "n", "e", "y">>
kwGantt == <<"g", "a", "n", "t", "t">>
kwPieChart == <<"p", "i", "e", "C", "h", "a", "r", "t">>
kwQuadrantChart == <<"q", "u", "a", "d", "r", "a", "n", "t", "C", "h", "a", "r", "t">>
kwRequirementDiagram ==
    <<"r", "e", "q", "u", "i", "r", "e", "m", "e", "n", "t", "D", "i", "a", "g", "r", "a", "m">>
kwGitGraph == <<"g", "i", "t", "G", "r", "a", "p", "h">>
kwC4Diagram == <<"c", "4", "D", "i", "a", "g", "r", "a", "m">>

strArrow == <<"-", "-", ">">>
strClass == <<"c", "l", "a", "s", "s", " ">>
strParticipant == <<"p", "a", "r", "t", "i", "c", "i", "p", "a", "n", "t", " ">>
strActor == <<"a", "c", "t", "o", "r", " ">>
strState == <<"s", "t", "a", "t", "e", " ">>
strSubgraph == <<"s", "u", "b", "g", "r", "a", "p", "h">>
strEnd == <<"e", "n", "d">>
strNlEnd == <<"\n", "e", "n", "d">>
preFlowchart == <<"f", "l", "o", "w", "c", "h", "a", "r", "t", " ", "T", "D", "\n">>
preClassDiagram == <<"c", "l", "a", "s", "s", "D", "i", "a", "g", "r", "a", "m", "\n">>
preSequenceDiagram ==
    <<"s", "e", "q", "u", "e", "n", "c", "e", "D", "i", "a", "g", "r", "a", "m", "\n">>
preStateDiagram ==
    <<"s", "t", "a", "t", "e", "D", "i", "a", "g", "r", "a", "m", "-", "v", "2", "\n">>

(***************************************************************************)
(* Diagram texts the operations are exercised on.                          *)
(***************************************************************************)
txtEmpty == <<>>
txtBlank == <<" ", "\n">>
txtControl == <<"\t">>
txtArrow == <<"A", "-", "-", ">", "B">>
txtFlow ==
    <<"f", "l", "o", "w", "c", "h", "a", "r", "t", " ", "T", "D", "\n", "A", "-", "-", ">",
      "B">>
txtUserInit ==
    <<"%", "%", "{", "i", "n", "i", "t", ":", " ", "{", "}", "}", "%", "%", "\n", "f", "l",
      "o", "w", "c", "h", "a", "r", "t", " ", "T", "D", "\n", "A", "-", "-", ">", "B">>
txtQuoted == <<"A", " ", "[", " ", "\"", "x", "\"", " ", "]", "-", "-", ">", "B">>
txtSubgraph ==
    <<"s", "u", "b", "g", "r", "a", "p", "h", " ", "S", "\n", "A", "-", "-", ">", "B">>
txtClass == <<"c", "l", "a", "s", "s", " ", "X">>
txtPie == <<"p", "i", "e", " ", "t", "i", "t", "l", "e", " ", "P">>

txtParticipant == <<"p", "a", "r", "t", "i", "c", "i", "p", "a", "n", "t", " ", "A">>
txtFactory == <<"f", "a", "c", "t", "o", "r", "y">>
txtState == <<"s", "t", "a", "t", "e", " ", "S">>
txtClassArrow == <<"c", "l", "a", "s", "s", " ", "X", "\n", "X", "-", "-", ">", "Y">>
txtClassActor == <<"c", "l", "a", "s", "s", " ", "X", "\n", "a", "c", "t", "o", "r", " ", "Y">>
txtActorState == <<"a", "c", "t", "o", "r", " ", "A", "\n", "s", "t", "a", "t", "e", " ", "S">>
txtClosed ==
    <<"s", "u", "b", "g", "r", "a", "p", "h", " ", "S", "\n", "A", "-", "-", ">", "B", "\n",
      "e", "n", "d">>
txtLegend ==
    <<"s", "u", "b", "g", "r", "a", "p", "h", " ", "S", "\n", "l", "e", "g", "e", "n", "d",
      "-", "-", ">", "B">>

\* inputs of the pure functions
InputTexts ==
    {txtEmpty, txtBlank, txtControl, txtArrow, txtFlow, txtUserInit, txtQuoted,
     txtSubgraph, txtClass, txtPie}

\* inputs of the repair pipeline: the texts above and one text per branch of
\* the rule-based fixes
RepairTexts ==
    InputTexts \cup {txtParticipant, txtFactory, txtState, txtClassArrow, txtClassActor,
                     txtActorState, txtClosed, txtLegend}

(***************************************************************************)
(* Styling directives (utils/mermaid-styler.ts).                           *)
(***************************************************************************)
\* the check the three functions share: an init directive is already there
HasInitDirective(mermaidCode) ==
    Includes(mermaidCode, sigInitColon) \/ Includes(mermaidCode, sigInitSpace)

addColorContrastDirective(mermaidCode) ==
    IF HasInitDirective(mermaidCode)
    THEN mermaidCode
    ELSE colorContrastDirective \o mermaidCode

addCleanLayoutDirective(mermaidCode) ==
    IF HasInitDirective(mermaidCode)
    THEN mermaidCode
    ELSE cleanLayoutDirective \o mermaidCode

applyAllStylingDirectives(mermaidCode) ==
    IF HasInitDirective(mermaidCode)
    THEN mermaidCode
    ELSE comprehensiveDirective \o mermaidCode

StylingFunctions ==
    {"addColorContrastDirective", "addCleanLayoutDirective", "applyAllStylingDirectives"}

ApplyStyling(f, mermaidCode) ==
    CASE f = "addColorContrastDirective" -> addColorContrastDirective(mermaidCode)
      [] f = "addCleanLayoutDirective" -> addCleanLayoutDirective(mermaidCode)
      [] f = "applyAllStylingDirectives" -> applyAllStylingDirectives(mermaidCode)

(***************************************************************************)
(* Rule-based fixes of validateAndFixMermaidSyntax                         *)
(* (utils/mermaid-validator.ts).                                           *)
(***************************************************************************)
\* the alternatives of the anchored diagram-type regexp
DiagramTypeKeywords ==
    {kwFlowchart, kwSequenceDiagram, kwClassDiagram, kwStateDiagram,
     kwEntityRelationshipDiagram, kwUserJourney, kwGantt, kwPieChart, kwQuadrantChart,
     kwRequirementDiagram, kwGitGraph, kwC4Diagram}

StartsWithDiagramType(code) == \E kw \in DiagramTypeKeywords : StartsWith(code, kw)

\* the inference with the class test ahead of the arrow test
AddMissingDiagramTypeClassFirst(fixedCode) ==
    IF StartsWithDiagramType(fixedCode) THEN fixedCode
    ELSE IF Includes(fixedCode, strClass) THEN preClassDiagram \o fixedCode
    ELSE IF Includes(fixedCode, strArrow) THEN preFlowchart \o fixedCode
    ELSE IF Includes(fixedCode, strParticipant) \/ Includes(fixedCode, strActor)
         THEN preSequenceDiagram \o fixedCode
    ELSE IF Includes(fixedCode, strState) THEN preStateDiagram \o fixedCode
    ELSE preFlowchart \o fixedCode

\* Fix 1: add a missing diagram type at the beginning
AddMissingDiagramType(fixedCode) ==
    IF StartsWithDiagramType(fixedCode) THEN fixedCode
    ELSE IF Includes(fixedCode, strArrow) \/ Includes(fixedCode, strArrow)
         THEN preFlowchart \o fixedCode
    ELSE IF Includes(fixedCode, strClass) THEN preClassDiagram \o fixedCode
    ELSE IF Includes(fixedCode, strParticipant) \/ Includes(fixedCode, strActor)
         THEN preSequenceDiagram \o fixedCode
    ELSE IF Includes(fixedCode, strState) THEN preStateDiagram \o fixedCode
    ELSE preFlowchart \o fixedCode

\* character classes of the regexp of Fix 2: \w and \s
WordChars ==
    {"a", "b", "c", "d", "e", "f", "g", "h", "i", "j", "k", "l", "m", "n", "o", "p", "q",
     "r", "s", "t", "u", "v", "w", "x", "y", "z", "A", "B", "C", "D", "E", "F", "G", "H",
     "I", "J", "K", "L", "M", "N", "O", "P", "Q", "R", "S", "T", "U", "V", "W", "X", "Y",
     "Z", "0", "1", "2", "3", "4", "5", "6", "7", "8", "9", "_"}
SpaceChars == {" ", "\n", "\t", "\r", "\f"}

\* first position at or after i whose character is not in class (Len(s) + 1 if none)
RECURSIVE SkipClass(_, _, _)
SkipClass(s, i, class) ==
    IF i > Len(s) \/ s[i] \notin class THEN i ELSE SkipClass(s, i + 1, class)

\* first position at or after i that holds a double quote (Len(s) + 1 if none)
RECURSIVE NextQuote(_, _)
NextQuote(s, i) ==
    IF i > Len(s) \/ s[i] = "\"" THEN i ELSE NextQuote(s, i + 1)

\* One attempt of /(\w+)\s*\[\s*"([^"]+)"\s*\]/ at position i.  Every quantifier
\* is followed by a character outside its class, so the greedy choice is the
\* only one that can match.
LabelMatchAt(s, i) ==
    LET wEnd == SkipClass(s, i, WordChars)
        lb == SkipClass(s, wEnd, SpaceChars)
        q1 == SkipClass(s, lb + 1, SpaceChars)
        q2 == NextQuote(s, q1 + 1)
        rb == SkipClass(s, q2 + 1, SpaceChars)
        ok == /\ i <= Len(s)
              /\ wEnd > i
              /\ lb <= Len(s) /\ s[lb] = "["
              /\ q1 <= Len(s) /\ s[q1] = "\""
              /\ q2 <= Len(s) /\ q2 > q1 + 1
              /\ rb <= Len(s) /\ s[rb] = "]"
    IN  IF ok
        THEN [matched |-> TRUE, last |-> rb,
              text |-> SubSeq(s, i, wEnd - 1) \o <<"[", "\"">> \o SubSeq(s, q1 + 1, q2 - 1)
                       \o <<"\"", "]">>]
        ELSE [matched |-> FALSE, last |-> i, text |-> <<>>]

\* Fix 2: fixedCode.replace(/(\w+)\s*\[\s*"([^"]+)"\s*\]/g, '$1["$2"]')
RECURSIVE ReplaceLabelsFrom(_, _)
ReplaceLabelsFrom(s, i) ==
    IF i > Len(s) THEN <<>>
    ELSE LET m == LabelMatchAt(s, i)
         IN  IF m.matched
             THEN m.text \o ReplaceLabelsFrom(s, m.last + 1)
             ELSE <<s[i]>> \o ReplaceLabelsFrom(s, i + 1)

NormalizeNodeLabels(fixedCode) == ReplaceLabelsFrom(fixedCode, 1)

\* Fix 3: add a missing end statement
AddMissingEnd(fixedCode) ==
    IF Includes(fixedCode, strSubgraph) /\ ~Includes(fixedCode, strEnd)
    THEN fixedCode \o strNlEnd
    ELSE fixedCode

\* the three fixes in the order the function applies them
RuleBasedFix(mermaidCode) ==
    AddMissingEnd(NormalizeNodeLabels(AddMissingDiagramType(mermaidCode)))

(***************************************************************************)
(* The collaborators' behaviour during one call is an input of the model:  *)
(* which puppeteer step rejects, what mermaid.parse decides, what the AI   *)
(* chain answers.                                                          *)
(***************************************************************************)
\* One use of the headless browser by validateMermaidSyntax: the first step
\* that rejects (or "none"), the verdict of mermaid.parse inside the page when
\* it is reached, and whether browser.close() resolves.
ValidatorRuns ==
    {[failAt |-> "launch", parseOk |-> FALSE, closeOk |-> TRUE]}
    \cup {[failAt |-> f, parseOk |-> FALSE, closeOk |-> c] :
            f \in {"newPage", "setContent", "evaluate"}, c \in BOOLEAN}
    \cup {[failAt |-> "none", parseOk |-> v, closeOk |-> c] : v \in BOOLEAN, c \in BOOLEAN}

\* error.message of the rejection of a puppeteer step
PuppeteerMessage(step) == step \o " rejected"

\* what the AI chain may answer when asked to fix a diagram
AiTexts == {txtFlow, txtArrow, txtEmpty}
AiFailureMessage == "chain.call rejected"
AiOutcomes == {[threw |-> TRUE, text |-> <<>>]} \cup {[threw |-> FALSE, text |-> t] : t \in AiTexts}

(***************************************************************************)
(* validateMermaidSyntax (utils/mermaid-validator.ts).                     *)
(***************************************************************************)
\* the value the try block or the catch block returns
ValidationOutcome(run) ==
    IF run.failAt = "none"
    THEN IF run.parseOk
         THEN [isValid |-> TRUE, message |-> ""]
         ELSE [isValid |-> FALSE, message |-> "Parse error"]
    ELSE [isValid |-> FALSE,
          message |-> "Error validating Mermaid syntax: " \o PuppeteerMessage(run.failAt)]

\* try { launch; newPage; setContent; evaluate } catch { isValid: false }
\* finally { if (browser) await browser.close() }: a rejection of close()
\* replaces the value being returned.
validateMermaidSyntax(mermaidCode, run) ==
    LET launched == run.failAt # "launch"
        outcome == ValidationOutcome(run)
    IN  IF launched /\ ~run.closeOk
        THEN [threw |-> TRUE, isValid |-> FALSE, message |-> PuppeteerMessage("close"),
              browsersLeft |-> 1]
        ELSE [threw |-> FALSE, isValid |-> outcome.isValid, message |-> outcome.message,
              browsersLeft |-> 0]

\* The record of one call in the call log.  verdict is "valid" or "invalid"
\* for a parse that ran, "failed" for a collaborator failure that the callee
\* absorbed, "threw" for a call that rejected into its caller, "ok" otherwise;
\* by tells whether the tool handler itself made the call.
ValidateCall(code, run, v) ==
    [call |-> "validateMermaidSyntax", code |-> code, by |-> "callee",
     verdict |-> IF v.threw THEN "threw"
                 ELSE IF run.failAt # "none" THEN "failed"
                 ELSE IF v.isValid THEN "valid" ELSE "invalid",
     message |-> IF v.threw \/ run.failAt = "none" THEN v.message
                 ELSE PuppeteerMessage(run.failAt)]

(***************************************************************************)
(* fixMermaidSyntaxWithAI (generators/langchain-generator.ts).             *)
(***************************************************************************)
fixMermaidSyntaxWithAI(configured, invalidMermaidCode, ai) ==
    IF ~configured
    THEN [threw |-> TRUE, text |-> <<>>,
          message |-> "OpenRouter API key not configured. Cannot fix Mermaid syntax with AI."]
    ELSE IF ai.threw
         THEN [threw |-> FALSE, text |-> invalidMermaidCode, message |-> ""]
         ELSE [threw |-> FALSE, text |-> ai.text, message |-> ""]

AiCall(code, ai) ==
    [call |-> "fixMermaidSyntaxWithLangChain", code |-> code, by |-> "callee",
     verdict |-> IF ai.threw THEN "failed" ELSE "ok",
     message |-> IF ai.threw THEN AiFailureMessage ELSE ""]

(***************************************************************************)
(* validateAndFixMermaidSyntax (utils/mermaid-validator.ts).               *)
(* env.v1, env.v2, env.v3 are the validator runs of the original, the      *)
(* AI-fixed and the rule-fixed code, env.ai the answer of the AI chain.    *)
(***************************************************************************)
\* newPage and setContent rejections lead through the same catch block as an
\* evaluate rejection, so the pipeline is exercised with the latter only
RepairRuns == {run \in ValidatorRuns : run.failAt \notin {"newPage", "setContent"}}
RepairEnvs == [v1 : RepairRuns, ai : AiOutcomes, v2 : RepairRuns, v3 : RepairRuns]

\* the rule-based tail with a retry: a rule-fixed code found invalid is
\* validated once more
RuleBasedStageRetry(mermaidCode, env, callsSoFar, browsersSoFar) ==
    LET fixedCode == RuleBasedFix(mermaidCode)
        r3 == validateMermaidSyntax(fixedCode, env.v3)
        log == Append(callsSoFar, ValidateCall(fixedCode, env.v3, r3))
    IN  IF r3.threw
        THEN [threw |-> TRUE, value |-> <<>>, message |-> r3.message, calls |-> log,
              browsersLeft |-> browsersSoFar + r3.browsersLeft]
        ELSE IF r3.isValid
        THEN [threw |-> FALSE, value |-> fixedCode, message |-> "", calls |-> log,
              browsersLeft |-> browsersSoFar]
        ELSE [threw |-> FALSE, value |-> mermaidCode, message |-> "",
              calls |-> Append(log, ValidateCall(fixedCode, env.v3, r3)),
              browsersLeft |-> browsersSoFar]

\* the rule-based tail of the function: fix, validate, pick
RuleBasedStage(mermaidCode, env, callsSoFar, browsersSoFar) ==
    LET fixedCode == RuleBasedFix(mermaidCode)
        r3 == validateMermaidSyntax(fixedCode, env.v3)
        log == Append(callsSoFar, ValidateCall(fixedCode, env.v3, r3))
    IN  IF r3.threw
        THEN [threw |-> TRUE, value |-> <<>>, message |-> r3.message, calls |-> log,
              browsersLeft |-> browsersSoFar + r3.browsersLeft]
        ELSE [threw |-> FALSE, value |-> IF r3.isValid THEN fixedCode ELSE mermaidCode,
              message |-> "", calls |-> log, browsersLeft |-> browsersSoFar]

\* the AI stage with its result never accepted: the rule-based fixes always follow
AiStageNeverAccepted(configured, mermaidCode, env, callsSoFar) ==
    LET fixed == fixMermaidSyntaxWithAI(configured, mermaidCode, env.ai)
        log1 == Append(callsSoFar, AiCall(mermaidCode, env.ai))
        r2 == validateMermaidSyntax(fixed.text, env.v2)
        log2 == Append(log1, ValidateCall(fixed.text, env.v2, r2))
    IN  IF fixed.threw
        THEN [returned |-> FALSE, value |-> <<>>, calls |-> callsSoFar, browsersLeft |-> 0]
        ELSE [returned |-> FALSE, value |-> <<>>, calls |-> log2,
              browsersLeft |-> r2.browsersLeft]
\* the AI stage: everything inside its try block; a throw there is swallowed
AiStage(configured, mermaidCode, env, callsSoFar) ==
    LET fixed == fixMermaidSyntaxWithAI(configured, mermaidCode, env.ai)
        log1 == Append(callsSoFar, AiCall(mermaidCode, env.ai))
        r2 == validateMermaidSyntax(fixed.text, env.v2)
        log2 == Append(log1, ValidateCall(fixed.text, env.v2, r2))
    IN  IF fixed.threw
        THEN [returned |-> FALSE, value |-> <<>>, calls |-> callsSoFar, browsersLeft |-> 0]
        ELSE IF r2.threw
        THEN [returned |-> FALSE, value |-> <<>>, calls |-> log2,
              browsersLeft |-> r2.browsersLeft]
        ELSE [returned |-> r2.isValid, value |-> fixed.text, calls |-> log2,
              browsersLeft |-> 0]

validateAndFixMermaidSyntax(configured, mermaidCode, env) ==
    LET r1 == validateMermaidSyntax(mermaidCode, env.v1)
        log1 == <<ValidateCall(mermaidCode, env.v1, r1)>>
    IN  IF r1.threw
        THEN [threw |-> TRUE, value |-> <<>>, message |-> r1.message, calls |-> log1,
              browsersLeft |-> r1.browsersLeft]
        ELSE IF r1.isValid
        THEN [threw |-> FALSE, value |-> mermaidCode, message |-> "", calls |-> log1,
              browsersLeft |-> 0]
        ELSE IF configured
        THEN LET a == AiStage(configured, mermaidCode, env, log1)
             IN  IF a.returned
                 THEN [threw |-> FALSE, value |-> a.value, message |-> "", calls |-> a.calls,
                       browsersLeft |-> 0]
                 ELSE RuleBasedStage(mermaidCode, env, a.calls, a.browsersLeft)
        ELSE RuleBasedStage(mermaidCode, env, log1, 0)

(***************************************************************************)
(* Image export (utils/image-exporter.ts).                                 *)
(***************************************************************************)
\* One run of exportDiagramToImage: the first step that rejects.  "page" stands
\* for newPage, setViewport, goto, waitForSelector and the lookup of #diagram,
\* "render" for the evaluate / pdf / screenshot of the requested format.
ExportRuns ==
    {[failAt |-> f, closeOk |-> TRUE] : f \in {"mkdtemp", "writeFile", "launch"}}
    \cup {[failAt |-> f, closeOk |-> c] : f \in {"page", "render", "none"}, c \in BOOLEAN}

\* exportDiagramInMemory creates no file: only the browser steps can reject
InMemoryRuns == {run \in ExportRuns : run.failAt \notin {"mkdtemp", "writeFile"}}

ImageFormats == {"png", "svg", "pdf"}

\* mkdtemp and writeFile and launch run before the try block; the finally block
\* awaits browser.close() and only then removes diagram.html and the directory.
exportDiagramToImage(code, format, run) ==
    CASE run.failAt = "mkdtemp" ->
            [threw |-> TRUE, message |-> PuppeteerMessage("mkdtemp"), value |-> <<>>,
             browsersLeft |-> 0, tempDirsLeft |-> 0]
      [] run.failAt = "writeFile" ->
            [threw |-> TRUE, message |-> PuppeteerMessage("writeFile"), value |-> <<>>,
             browsersLeft |-> 0, tempDirsLeft |-> 1]
      [] run.failAt = "launch" ->
            [threw |-> TRUE, message |-> PuppeteerMessage("launch"), value |-> <<>>,
             browsersLeft |-> 0, tempDirsLeft |-> 1]
      [] run.failAt \in {"page", "render", "none"} /\ ~run.closeOk ->
            [threw |-> TRUE, message |-> PuppeteerMessage("close"), value |-> <<>>,
             browsersLeft |-> 1, tempDirsLeft |-> 1]
      [] run.failAt \in {"page", "render"} /\ run.closeOk ->
            [threw |-> TRUE, message |-> PuppeteerMessage(run.failAt), value |-> <<>>,
             browsersLeft |-> 0, tempDirsLeft |-> 0]
      [] run.failAt = "none" /\ run.closeOk ->
            [threw |-> FALSE, message |-> "", value |-> <<format, code>>,
             browsersLeft |-> 0, tempDirsLeft |-> 0]

\* the buffer of exportDiagramToImage wrapped as data:<mime>;base64,...
exportDiagramToDataUrl(code, format, run) ==
    LET r == exportDiagramToImage(code, format, run)
    IN  IF r.threw THEN r ELSE [r EXCEPT !.value = <<"data:">> \o r.value]

\* launch runs before the try block, the finally block awaits browser.close()
exportDiagramInMemory(code, format, run) ==
    CASE run.failAt = "launch" ->
            [threw |-> TRUE, message |-> PuppeteerMessage("launch"), value |-> <<>>,
             browsersLeft |-> 0, tempDirsLeft |-> 0]
      [] run.failAt \in {"page", "render", "none"} /\ ~run.closeOk ->
            [threw |-> TRUE, message |-> PuppeteerMessage("close"), value |-> <<>>,
             browsersLeft |-> 1, tempDirsLeft |-> 0]
      [] run.failAt \in {"page", "render"} /\ run.closeOk ->
            [threw |-> TRUE, message |-> PuppeteerMessage(run.failAt), value |-> <<>>,
             browsersLeft |-> 0, tempDirsLeft |-> 0]
      [] run.failAt = "none" /\ run.closeOk ->
            [threw |-> FALSE, message |-> "", value |-> <<format, code>>,
             browsersLeft |-> 0, tempDirsLeft |-> 0]

(***************************************************************************)
(* Entity extraction (utils/entity-extractor.ts).                          *)
(***************************************************************************)
UpperSeq ==
    <<"A", "B", "C", "D", "E", "F", "G", "H", "I", "J", "K", "L", "M", "N",
       "O", "P", "Q", "R", "S", "T", "U", "V", "W", "X", "Y", "Z">>
LowerSeq ==
    <<"a", "b", "c", "d", "e", "f", "g", "h", "i", "j", "k", "l", "m", "n",
       "o", "p", "q", "r", "s", "t", "u", "v", "w", "x", "y", "z">>
Range(seq) == {seq[k] : k \in DOMAIN seq}
UpperChars == Range(UpperSeq)
LowerChars == Range(LowerSeq)
PunctChars == {".", ",", ";", ":", "!", "?"}

ToLowerChar(c) ==
    IF c \in UpperChars THEN LowerSeq[CHOOSE k \in DOMAIN UpperSeq : UpperSeq[k] = c] ELSE c
toLowerCase(s) == [k \in DOMAIN s |-> ToLowerChar(s[k])]

\* descriptions the extractors are exercised with
txtScenario ==
    <<"T", "h", "e", " ", "U", "s", "e", "r", " ", "s", "e", "n", "d", "s", " ", "a", " ", "R",
      "e", "q", "u", "e", "s", "t", " ", "t", "o", " ", "t", "h", "e", " ", "S", "e", "r", "v",
      "e", "r", ".">>
txtCommaList ==
    <<"O", "r", "d", "e", "r", ",", " ", "I", "t", "e", "m", ";", " ", "O", "r", "d", "e", "r",
      " ", "h", "a", "s", " ", "I", "t", "e", "m">>
txtKeyword ==
    <<"t", "h", "e", " ", "u", "s", "e", "r", " ", "a", "l", "i", "c", "e", " ", "c", "a", "l",
      "l", "s", " ", "s", "e", "r", "v", "i", "c", "e", " ", "B", "i", "l", "l", "i", "n", "g",
      "_", "2">>
txtShort ==
    <<"A", " ", "C", "a", "t", ".", " ", "i", "P", "h", "o", "n", "e", " ", "B", "2", " ", "D",
      "o", "g", "!">>
txtExtends ==
    <<"D", "o", "g", " ", "e", "x", "t", "e", "n", "d", "s", " ", "A", "n", "i", "m", "a", "l",
      ".">>
txtLowerOnly ==
    <<"n", "o", " ", "c", "a", "p", "i", "t", "a", "l", "s", " ", "h", "e", "r", "e">>
entUser == <<"U", "s", "e", "r">>
entRequest == <<"R", "e", "q", "u", "e", "s", "t">>
entServer == <<"S", "e", "r", "v", "e", "r">>
txtParen ==
    <<"C", "a", "l", "l", " ", "R", "e", "n", "d", "e", "r", "(", "x", " ", "t", "h", "e", "n",
      " ", "S", "t", "o", "p", ".">>
DescriptionTexts ==
    {txtEmpty, txtBlank, txtScenario, txtCommaList, txtKeyword, txtShort, txtExtends,
     txtLowerOnly, txtParen}

\* first position at or after i whose character is in class (Len(s) + 1 if none)
RECURSIVE SkipUntil(_, _, _)
SkipUntil(s, i, class) ==
    IF i > Len(s) \/ s[i] \in class THEN i ELSE SkipUntil(s, i + 1, class)

\* description.split(/\s+/) without the empty strings it yields at the ends,
\* which the test of the loop rejects anyway
RECURSIVE WordsFrom(_, _)
WordsFrom(s, i) ==
    IF i > Len(s) THEN <<>>
    ELSE IF s[i] \in SpaceChars THEN WordsFrom(s, i + 1)
    ELSE <<SubSeq(s, i, SkipUntil(s, i, SpaceChars) - 1)>>
         \o WordsFrom(s, SkipUntil(s, i, SpaceChars))

\* /^[A-Z][a-z]+/.test(word) && !word.includes('.')
IsEntityWord(word) ==
    /\ Len(word) >= 2
    /\ word[1] \in UpperChars
    /\ word[2] \in LowerChars
    /\ \A k \in DOMAIN word : word[k] # "."

\* word.replace(/[.,;:!?]$/, '')
CleanWord(word) ==
    IF word # <<>> /\ word[Len(word)] \in PunctChars
    THEN SubSeq(word, 1, Len(word) - 1)
    ELSE word

\* Set.prototype.add, the set kept in insertion order
SetAdd(entities, e) == IF e \in Range(entities) THEN entities ELSE Append(entities, e)

\* the loop over the words
RECURSIVE CapitalizedFrom(_, _, _)
CapitalizedFrom(words, k, entities) ==
    IF k > Len(words) THEN entities
    ELSE IF IsEntityWord(words[k]) /\ Len(CleanWord(words[k])) > 1
    THEN CapitalizedFrom(words, k + 1, SetAdd(entities, CleanWord(words[k])))
    ELSE CapitalizedFrom(words, k + 1, entities)

entityKeywords ==
    <<<<"c", "l", "a", "s", "s">>,
      <<"e", "n", "t", "i", "t", "y">>,
      <<"c", "o", "m", "p", "o", "n", "e", "n", "t">>,
      <<"s", "y", "s", "t", "e", "m">>,
      <<"u", "s", "e", "r">>,
      <<"d", "a", "t", "a", "b", "a", "s", "e">>,
      <<"s", "e", "r", "v", "i", "c", "e">>>>

\* s matches p at position i, letter case ignored
MatchAtIgnoreCase(s, p, i) ==
    /\ i >= 1
    /\ i + Len(p) - 1 <= Len(s)
    /\ \A k \in 1..Len(p) : ToLowerChar(s[i + k - 1]) = ToLowerChar(p[k])

\* \b before position i
WordBoundaryAt(s, i) ==
    (i >= 2 /\ i - 1 <= Len(s) /\ s[i - 1] \in WordChars) # (i <= Len(s) /\ s[i] \in WordChars)

\* One attempt of /\b(class|...|service)\s+([A-Za-z0-9_]+)\b/gi at position i.
\* No keyword is a prefix of another and each quantifier is followed by a
\* character outside its class, so the greedy choice is the only match.
KeywordMatchAt(s, i) ==
    LET hits == {k \in DOMAIN entityKeywords : MatchAtIgnoreCase(s, entityKeywords[k], i)}
        kwEnd == i + Len(entityKeywords[CHOOSE k \in hits : TRUE])
        nameStart == SkipClass(s, kwEnd, SpaceChars)
        nameEnd == SkipClass(s, nameStart, WordChars)
    IN  IF WordBoundaryAt(s, i) /\ hits # {} /\ nameStart > kwEnd /\ nameEnd > nameStart
        THEN [matched |-> TRUE, last |-> nameEnd - 1,
              name |-> SubSeq(s, nameStart, nameEnd - 1)]
        ELSE [matched |-> FALSE, last |-> i, name |-> <<>>]

\* while ((match = regex.exec(description)) !== null) entities.add(match[2])
RECURSIVE KeywordEntitiesFrom(_, _, _)
KeywordEntitiesFrom(s, i, entities) ==
    IF i > Len(s) THEN entities
    ELSE IF KeywordMatchAt(s, i).matched
    THEN KeywordEntitiesFrom(s, KeywordMatchAt(s, i).last + 1,
                             SetAdd(entities, KeywordMatchAt(s, i).name))
    ELSE KeywordEntitiesFrom(s, i + 1, entities)

extractEntities(description) ==
    KeywordEntitiesFrom(description, 1,
                        CapitalizedFrom(WordsFrom(description, 1), 1, <<>>))

(***************************************************************************)
(* Relationship extraction (utils/entity-extractor.ts).  An entity name is  *)
(* spliced into the pattern of new RegExp(...) as it is.  Of the           *)
(* characters with a meaning in a pattern the descriptions here hold only  *)
(* parentheses; a name with an unclosed group makes the constructor throw  *)
(* a SyntaxError, and the other names hold word characters only.           *)
(***************************************************************************)
\* the nesting depth of groups after position i, -1 once a ")" closes nothing
RECURSIVE GroupDepth(_, _, _)
GroupDepth(pattern, i, depth) ==
    IF depth < 0 \/ i > Len(pattern) THEN depth
    ELSE GroupDepth(pattern, i + 1,
                    IF pattern[i] = "(" THEN depth + 1
                    ELSE IF pattern[i] = ")" THEN depth - 1
                    ELSE depth)

\* new RegExp(...) throws: Unterminated group, Unmatched ')'
RegExpRejects(entity) == GroupDepth(entity, 1, 0) # 0

Terminators == {".", "!", "?"}

\* \bentity\b at position i, letter case ignored ('gi')
OccursAsWord(s, entity, i) ==
    /\ MatchAtIgnoreCase(s, entity, i)
    /\ WordBoundaryAt(s, i)
    /\ WordBoundaryAt(s, i + Len(entity))

\* description.match(/[^.!?]*\bE1\b[^.!?]*\bE2\b[^.!?]*[.!?]/gi) from position p
\* on.  A match starts where the previous one ended, runs to the next
\* terminator t, and needs E1 and then E2 as words before t; when the attempt
\* at p fails, so does every attempt up to t.
RECURSIVE SentenceMatches(_, _, _, _)
SentenceMatches(s, entity1, entity2, p) ==
    IF SkipUntil(s, p, Terminators) > Len(s) THEN <<>>
    ELSE IF \E a \in p..(SkipUntil(s, p, Terminators) - 1) :
               /\ a + Len(entity1) <= SkipUntil(s, p, Terminators)
               /\ OccursAsWord(s, entity1, a)
               /\ \E b \in (a + Len(entity1))..(SkipUntil(s, p, Terminators) - 1) :
                     /\ b + Len(entity2) <= SkipUntil(s, p, Terminators)
                     /\ OccursAsWord(s, entity2, b)
    THEN <<SubSeq(s, p, SkipUntil(s, p, Terminators))>>
         \o SentenceMatches(s, entity1, entity2, SkipUntil(s, p, Terminators) + 1)
    ELSE SentenceMatches(s, entity1, entity2, SkipUntil(s, p, Terminators) + 1)

\* String.prototype.indexOf: 0-based, -1 when p does not occur
indexOf(s, p) ==
    IF \E i \in 1..(Len(s) + 1) : MatchAt(s, p, i)
    THEN (CHOOSE i \in 1..(Len(s) + 1) :
             MatchAt(s, p, i) /\ \A j \in 1..(i - 1) : ~MatchAt(s, p, j)) - 1
    ELSE -1

\* String.prototype.substring(a, b): arguments clamped to 0..length and swapped
\* when a > b
Clamp(n, len) == IF n < 0 THEN 0 ELSE IF n > len THEN len ELSE n
substring(s, a, b) ==
    LET x == Clamp(a, Len(s))
        y == Clamp(b, Len(s))
    IN  IF x <= y THEN SubSeq(s, x + 1, y) ELSE SubSeq(s, y + 1, x)

relationshipWords ==
    <<<<"h", "a", "s">>,
      <<"h", "a", "v", "e">>,
      <<"c", "o", "n", "t", "a", "i", "n", "s">>,
      <<"i", "n", "c", "l", "u", "d", "e", "s">>,
      <<"u", "s", "e", "s">>,
      <<"c", "a", "l", "l", "s">>,
      <<"d", "e", "p", "e", "n", "d", "s", " ", "o", "n">>,
      <<"r", "e", "l", "a", "t", "e", "s", " ", "t", "o">>,
      <<"c", "o", "n", "n", "e", "c", "t", "s", " ", "t", "o">>,
      <<"l", "i", "n", "k", "s", " ", "t", "o">>,
      <<"r", "e", "f", "e", "r", "e", "n", "c", "e", "s">>,
      <<"i", "n", "h", "e", "r", "i", "t", "s", " ", "f", "r", "o", "m">>,
      <<"e", "x", "t", "e", "n", "d", "s">>,
      <<"i", "m", "p", "l", "e", "m", "e", "n", "t", "s">>>>

\* the alternative of /\b(has|have|...|implements)\b/i that matches at i, 0 if none
AlternativeAt(s, i) ==
    LET hits == {k \in DOMAIN relationshipWords :
                    /\ MatchAtIgnoreCase(s, relationshipWords[k], i)
                    /\ WordBoundaryAt(s, i)
                    /\ WordBoundaryAt(s, i + Len(relationshipWords[k]))}
    IN  IF hits = {} THEN 0 ELSE CHOOSE k \in hits : \A h \in hits : k <= h

strRelatesTo == <<"r", "e", "l", "a", "t", "e", "s", " ", "t", "o">>

\* relationshipWords ? relationshipWords[0] : 'relates to'
RelationshipLabel(betweenEntities) ==
    LET at == {i \in DOMAIN betweenEntities : AlternativeAt(betweenEntities, i) # 0}
        first == CHOOSE i \in at : \A j \in at : i <= j
    IN  IF at = {} THEN strRelatesTo
        ELSE SubSeq(betweenEntities, first,
                    first + Len(relationshipWords[AlternativeAt(betweenEntities, first)]) - 1)

\* the relationship pushed for one match of the sentence regexp
MatchRelationship(match, entity1, entity2) ==
    [from |-> entity1, to |-> entity2,
     label |-> RelationshipLabel(substring(match, indexOf(match, entity1) + Len(entity1),
                                           indexOf(match, entity2)))]

\* the two nested loops, pair number k counting (i, j) row by row from 0
RECURSIVE SentenceRelationships(_, _, _)
SentenceRelationships(description, entities, k) ==
    IF k >= Len(entities) * Len(entities) THEN <<>>
    ELSE LET i == (k \div Len(entities)) + 1
             j == (k % Len(entities)) + 1
             matches == IF i = j THEN <<>>
                        ELSE SentenceMatches(description, entities[i], entities[j], 1)
         IN  [m \in DOMAIN matches |-> MatchRelationship(matches[m], entities[i], entities[j])]
             \o SentenceRelationships(description, entities, k + 1)

strHas == <<"h", "a", "s">>
strHave == <<"h", "a", "v", "e">>
strUses == <<"u", "s", "e", "s">>
strUse == <<"u", "s", "e">>
strContains == <<"c", "o", "n", "t", "a", "i", "n", "s">>
strContain == <<"c", "o", "n", "t", "a", "i", "n">>

\* relationLabel of the default relationships
DefaultLabel(description) ==
    IF Includes(description, strHas) \/ Includes(description, strHave) THEN strHas
    ELSE IF Includes(description, strUses) \/ Includes(description, strUse) THEN strUses
    ELSE IF Includes(description, strContains) \/ Includes(description, strContain)
    THEN strContains
    ELSE strRelatesTo

\* relationships between consecutive entities
DefaultChain(description, entities) ==
    [i \in 1..(Len(entities) - 1) |->
        [from |-> entities[i], to |-> entities[i + 1], label |-> DefaultLabel(description)]]

\* the default chain is never added
DefaultChainNever(relationships, entities) == FALSE
\* the default chain replaces the found relationships whenever there are entities
DefaultChainWhenAnyEntities(relationships, entities) == Len(entities) > 1
\* if (relationships.length === 0 && entities.length > 1)
DefaultChainNeeded(relationships, entities) == Len(relationships) = 0 /\ Len(entities) > 1

\* threw: a sentence regexp could not be built (every entity of a list of two
\* or more is spliced into one); found: what the sentence search pushed;
\* defaulted: the default branch ran
extractRelationships(description, entities) ==
    IF Len(entities) > 1 /\ \E k \in DOMAIN entities : RegExpRejects(entities[k])
    THEN [threw |-> TRUE, value |-> <<>>, found |-> <<>>, defaulted |-> FALSE]
    ELSE LET found == SentenceRelationships(description, entities, 0)
         IN  IF DefaultChainNeeded(found, entities)
             THEN [threw |-> FALSE, value |-> DefaultChain(description, entities),
                   found |-> found, defaulted |-> TRUE]
             ELSE [threw |-> FALSE, value |-> found, found |-> found, defaulted |-> FALSE]

\* entity lists the relationship extractor is exercised with
entDog == <<"D", "o", "g">>
entAnimal == <<"A", "n", "i", "m", "a", "l">>
entOrder == <<"O", "r", "d", "e", "r">>
entItem == <<"I", "t", "e", "m">>
EntityLists ==
    {<<>>, <<entDog>>, <<entDog, entAnimal>>, <<entAnimal, entDog>>,
     <<entOrder, entItem, entUser>>, <<entUser, entRequest, entServer>>}

(***************************************************************************)
(* Rendering from free text (generators/text-generator.ts).                *)
(***************************************************************************)
\* the concatenation of the strings of a list, in order
RECURSIVE Flatten(_)
Flatten(strings) ==
    IF strings = <<>> THEN <<>> ELSE Head(strings) \o Flatten(Tail(strings))

cdHeader == <<"c", "l", "a", "s", "s", "D", "i", "a", "g", "r", "a", "m", "\n">>
cdClassOpen == <<" ", " ", " ", " ", "c", "l", "a", "s", "s", " ">>
cdBraceOpen == <<" ", "{", "\n">>
cdAttributes ==
    <<" ", " ", " ", " ", " ", " ", " ", " ", "+", "S", "t", "r", "i", "n", "g", " ", "n", "a",
      "m", "e", "\n", " ", " ", " ", " ", " ", " ", " ", " ", "+", "S", "t", "r", "i", "n",
      "g", " ", "d", "e", "s", "c", "r", "i", "p", "t", "i", "o", "n", "\n">>
cdServiceMethods ==
    <<" ", " ", " ", " ", " ", " ", " ", " ", "+", "g", "e", "t", "D", "a", "t", "a", "(", ")",
      "\n", " ", " ", " ", " ", " ", " ", " ", " ", "+", "p", "r", "o", "c", "e", "s", "s",
      "R", "e", "q", "u", "e", "s", "t", "(", ")", "\n">>
cdControllerMethods ==
    <<" ", " ", " ", " ", " ", " ", " ", " ", "+", "h", "a", "n", "d", "l", "e", "R", "e", "q",
      "u", "e", "s", "t", "(", ")", "\n", " ", " ", " ", " ", " ", " ", " ", " ", "+", "s",
      "e", "n", "d", "R", "e", "s", "p", "o", "n", "s", "e", "(", ")", "\n">>
cdRepositoryMethods ==
    <<" ", " ", " ", " ", " ", " ", " ", " ", "+", "f", "i", "n", "d", "B", "y", "I", "d", "(",
      ")", "\n", " ", " ", " ", " ", " ", " ", " ", " ", "+", "s", "a", "v", "e", "(", ")",
      "\n">>
cdDefaultMethods ==
    <<" ", " ", " ", " ", " ", " ", " ", " ", "+", "g", "e", "t", "I", "n", "f", "o", "(", ")",
      "\n", " ", " ", " ", " ", " ", " ", " ", " ", "+", "u", "p", "d", "a", "t", "e", "(",
      ")", "\n">>
cdBraceClose == <<" ", " ", " ", " ", "}", "\n">>
strService == <<"s", "e", "r", "v", "i", "c", "e">>
strController == <<"c", "o", "n", "t", "r", "o", "l", "l", "e", "r">>
strRepository == <<"r", "e", "p", "o", "s", "i", "t", "o", "r", "y">>
strInherits == <<"i", "n", "h", "e", "r", "i", "t", "s">>
strExtends == <<"e", "x", "t", "e", "n", "d", "s">>
strImplements == <<"i", "m", "p", "l", "e", "m", "e", "n", "t", "s">>
strDepends == <<"d", "e", "p", "e", "n", "d", "s">>
strIndent == <<" ", " ", " ", " ">>
strColon == <<" ", ":", " ">>
strNewline == <<"\n">>
arrowBidirectional == <<"<", "-", "-", ">">>
arrowContainment == <<" ", "*", "-", "-", " ">>
arrowInheritance == <<" ", "<", "|", "-", "-", " ">>
arrowImplementation == <<" ", "<", "|", ".", ".", " ">>
arrowDependency == <<" ", "-", "-", ">", " ">>

\* the block of one class: attributes, then methods chosen by the entity name
ClassBlock(entity) ==
    cdClassOpen \o entity \o cdBraceOpen \o cdAttributes
    \o (IF Includes(toLowerCase(entity), strService) THEN cdServiceMethods
        ELSE IF Includes(toLowerCase(entity), strController) THEN cdControllerMethods
        ELSE IF Includes(toLowerCase(entity), strRepository) THEN cdRepositoryMethods
        ELSE cdDefaultMethods)
    \o cdBraceClose

\* every relationship is drawn with the default arrow
RelationshipTypeDefault(label) == arrowBidirectional
\* relationshipType, determined by the label
RelationshipType(label) ==
    IF Includes(label, strHas) \/ Includes(label, strContains) THEN arrowContainment
    ELSE IF Includes(label, strInherits) \/ Includes(label, strExtends) THEN arrowInheritance
    ELSE IF Includes(label, strImplements) THEN arrowImplementation
    ELSE IF Includes(label, strUses) \/ Includes(label, strDepends) THEN arrowDependency
    ELSE arrowBidirectional

\* `    ${rel.from}${relationshipType}${rel.to} : ${rel.label}\n`
ClassRelationshipLine(rel) ==
    strIndent \o rel.from \o RelationshipType(rel.label) \o rel.to \o strColon \o rel.label
    \o strNewline

generateClassDiagram(entities, relationships) ==
    cdHeader
    \o Flatten([i \in DOMAIN entities |-> ClassBlock(entities[i])])
    \o Flatten([k \in DOMAIN relationships |-> ClassRelationshipLine(relationships[k])])

\* relationship lists the renderers are exercised with
strExtendsCapital == <<"E", "x", "t", "e", "n", "d", "s">>
RelationshipLists ==
    {<<>>,
     <<[from |-> entDog, to |-> entAnimal, label |-> strExtends]>>,
     <<[from |-> entDog, to |-> entAnimal, label |-> strImplements],
       [from |-> entOrder, to |-> entItem, label |-> strHas]>>,
     <<[from |-> entDog, to |-> entAnimal, label |-> strExtends],
       [from |-> entAnimal, to |-> entDog, label |-> strUses],
       [from |-> entOrder, to |-> entItem, label |-> strRelatesTo]>>,
     <<[from |-> entDog, to |-> entAnimal, label |-> strExtendsCapital]>>}

(***************************************************************************)
(* Process steps (utils/entity-extractor.ts) and the flowchart renderer.   *)
(***************************************************************************)
MaxSteps == 26
codeA == 65
MinStepLength == 10
MaxStepLength == 60

DigitSeq == <<"0", "1", "2", "3", "4", "5", "6", "7", "8", "9">>
DigitChars == Range(DigitSeq)

\* String.prototype.trim
RECURSIVE LastNonSpace(_, _)
LastNonSpace(s, i) ==
    IF i < 1 \/ s[i] \notin SpaceChars THEN i ELSE LastNonSpace(s, i - 1)
trim(s) == SubSeq(s, SkipClass(s, 1, SpaceChars), LastNonSpace(s, Len(s)))

\* One attempt of /\b(\d+)[.)][\s]+([^\n.]+)/g at position i.  \d+ takes the
\* whole run of digits; [\s]+ takes the longest run of white space that leaves
\* a character other than \n and . for the second group, which then runs up
\* to the next \n or .
NumberedMatchAt(s, i) ==
    LET dEnd == SkipClass(s, i, DigitChars)
        wsEnd == SkipClass(s, dEnd + 1, SpaceChars) - 1
        ks == {k \in (dEnd + 1)..wsEnd : k + 1 <= Len(s) /\ s[k + 1] \notin {"\n", "."}}
        k == CHOOSE x \in ks : \A y \in ks : y <= x
    IN  IF /\ WordBoundaryAt(s, i)
           /\ dEnd > i
           /\ dEnd <= Len(s)
           /\ s[dEnd] \in {".", ")"}
           /\ ks # {}
        THEN [matched |-> TRUE, last |-> SkipUntil(s, k + 1, {"\n", "."}) - 1,
              step |-> trim(SubSeq(s, k + 1, SkipUntil(s, k + 1, {"\n", "."}) - 1))]
        ELSE [matched |-> FALSE, last |-> i, step |-> <<>>]

\* the exec loop over the numbered list: the next match is the leftmost one
\* at or after lastIndex
RECURSIVE NumberedStepsFrom(_, _)
NumberedStepsFrom(s, i) ==
    LET at == {j \in i..Len(s) : NumberedMatchAt(s, j).matched}
        first == CHOOSE j \in at : \A h \in at : j <= h
    IN  IF at = {} THEN <<>>
        ELSE <<NumberedMatchAt(s, first).step>>
             \o NumberedStepsFrom(s, NumberedMatchAt(s, first).last + 1)

\* description.split(/[.!?]+/) from position p on
RECURSIVE SplitSentences(_, _)
SplitSentences(s, p) ==
    IF SkipUntil(s, p, Terminators) > Len(s) THEN <<SubSeq(s, p, Len(s))>>
    ELSE <<SubSeq(s, p, SkipUntil(s, p, Terminators) - 1)>>
         \o SplitSentences(s, SkipClass(s, SkipUntil(s, p, Terminators), Terminators))

stepKeywords ==
    <<<<"f", "i", "r", "s", "t">>, <<"t", "h", "e", "n">>, <<"n", "e", "x", "t">>, <<"f", "i", "n", "a", "l", "l", "y">>, <<"l", "a", "s", "t", "l", "y">>>>

HasStepKeyword(sentence) ==
    \E k \in DOMAIN stepKeywords : Includes(toLowerCase(sentence), stepKeywords[k])

\* /^\s*[A-Z][a-z]+\s+[a-z]+/.test(sentence)
StartsWithAction(sentence) ==
    LET a == SkipClass(sentence, 1, SpaceChars)
        e == SkipClass(sentence, a + 1, LowerChars)
        w == SkipClass(sentence, e, SpaceChars)
    IN  /\ a <= Len(sentence)
        /\ sentence[a] \in UpperChars
        /\ e > a + 1
        /\ w > e
        /\ w <= Len(sentence)
        /\ sentence[w] \in LowerChars

IsActionStep(sentence) ==
    /\ StartsWithAction(sentence)
    /\ Len(trim(sentence)) > MinStepLength
    /\ Len(trim(sentence)) < MaxStepLength

TrimAll(sentences) == [k \in DOMAIN sentences |-> trim(sentences[k])]

extractProcessSteps(description) ==
    LET numbered == NumberedStepsFrom(description, 1)
        sentences == SplitSentences(description, 1)
        keyword == TrimAll(SelectSeq(sentences, HasStepKeyword))
    IN  IF numbered # <<>> THEN numbered
        ELSE IF keyword # <<>> THEN keyword
        ELSE TrimAll(SelectSeq(sentences, IsActionStep))

\* the characters of the code units 65 ('A') to 91 ('[')
CodeChars ==
    <<"A", "B", "C", "D", "E", "F", "G", "H", "I", "J", "K", "L", "M", "N", "O", "P", "Q", "R",
      "S", "T", "U", "V", "W", "X", "Y", "Z", "[">>
fromCharCode(code) == <<CodeChars[code - (codeA - 1)]>>

\* two identifiers taken in turn
NodeIdAlternating(i) == fromCharCode(codeA + (i % 2))
\* const nodeId = String.fromCharCode(65 + i), i counted from 0
NodeId(i) == fromCharCode(codeA + i)

fcHeader == <<"f", "l", "o", "w", "c", "h", "a", "r", "t", " ", "T", "D", "\n">>
fcBracketOpen == <<"[">>
fcBracketClose == <<"]", "\n">>
fcYes == <<" ", "-", "-", ">", "|", "Y", "e", "s", "|", " ">>
fcNo == <<" ", "-", "-", ">", "|", "N", "o", "|", " ">>
fcTo == <<" ", "-", "-", ">", " ">>
fcDefault ==
    <<" ", " ", " ", " ", "A", "[", "S", "t", "a", "r", "t", "]", " ", "-", "-", ">", " ", "B",
      "{", "P", "r", "o", "c", "e", "s", "s", " ", "D", "a", "t", "a", "?", "}", "\n", " ",
      " ", " ", " ", "B", " ", "-", "-", ">", "|", "Y", "e", "s", "|", " ", "C", "[", "P", "r",
      "o", "c", "e", "s", "s", " ", "D", "a", "t", "a", "]", "\n", " ", " ", " ", " ", "B",
      " ", "-", "-", ">", "|", "N", "o", "|", " ", "D", "[", "S", "k", "i", "p", " ", "P", "r",
      "o", "c", "e", "s", "s", "i", "n", "g", "]", "\n", " ", " ", " ", " ", "C", " ", "-",
      "-", ">", " ", "E", "[", "E", "n", "d", "]", "\n", " ", " ", " ", " ", "D", " ", "-",
      "-", ">", " ", "E", "\n">>
strIf == <<"i", "f">>
strDecide == <<"d", "e", "c", "i", "d", "e">>
strCheck == <<"c", "h", "e", "c", "k">>

\* `    ${nodeId}[${steps[i]}]\n`
NodeLine(steps, i) ==
    strIndent \o NodeId(i) \o fcBracketOpen \o steps[i + 1] \o fcBracketClose

IsDecision(step) ==
    \/ Includes(toLowerCase(step), strIf)
    \/ Includes(toLowerCase(step), strDecide)
    \/ Includes(toLowerCase(step), strCheck)

\* the connection with its "No" branch drawn whether or not a step exists two
\* positions ahead
ConnectionNoAlways(steps, i) ==
    IF IsDecision(steps[i + 1])
    THEN strIndent \o NodeId(i) \o fcYes \o NodeId(i + 1) \o strNewline
         \o strIndent \o NodeId(i) \o fcNo \o NodeId(i + 2) \o strNewline
    ELSE strIndent \o NodeId(i) \o fcTo \o NodeId(i + 1) \o strNewline

\* the lines that connect step i to the steps after it
Connection(steps, i) ==
    IF IsDecision(steps[i + 1])
    THEN strIndent \o NodeId(i) \o fcYes \o NodeId(i + 1) \o strNewline
         \o (IF i + 2 < Len(steps)
             THEN strIndent \o NodeId(i) \o fcNo \o NodeId(i + 2) \o strNewline
             ELSE <<>>)
    ELSE strIndent \o NodeId(i) \o fcTo \o NodeId(i + 1) \o strNewline

FlowchartOfSteps(steps) ==
    IF Len(steps) > 0
    THEN fcHeader
         \o Flatten([k \in 1..Len(steps) |-> NodeLine(steps, k - 1)])
         \o Flatten([k \in 1..(Len(steps) - 1) |-> Connection(steps, k - 1)])
    ELSE fcHeader \o fcDefault

generateFlowchart(description) == FlowchartOfSteps(extractProcessSteps(description))

\* descriptions with process steps: numbered lists of 1..MaxSteps steps,
\* decisions, step keywords, action sentences
RECURSIVE Decimal(_)
Decimal(n) ==
    IF n < 10 THEN <<DigitSeq[n + 1]>> ELSE Decimal(n \div 10) \o <<DigitSeq[(n % 10) + 1]>>
txtStepBody == <<".", " ", "g", "o", "\n">>
NumberedList(n) == Flatten([k \in 1..n |-> Decimal(k) \o txtStepBody])
txtDecisions ==
    <<"1", ")", " ", "c", "h", "e", "c", "k", " ", "i", "n", "p", "u", "t", "\n", "2", ".",
      " ", " ", "\n", "3", ".", " ", "d", "e", "c", "i", "d", "e", ".", " ", "4", ".", " ",
      "s", "t", "o", "p">>
txtChecks ==
    <<"1", ".", " ", "c", "h", "e", "c", "k", " ", "t", "h", "e", " ", "i", "n", "p", "u", "t",
      "\n", "2", ".", " ", "d", "e", "c", "i", "d", "e", " ", "t", "h", "e", " ", "r", "o",
      "u", "t", "e", "\n", "3", ".", " ", "s", "t", "o", "p">>
txtKeywordSteps ==
    <<"F", "i", "r", "s", "t", " ", "o", "p", "e", "n", " ", "t", "h", "e", " ", "f", "i", "l",
      "e", "!", " ", "T", "h", "e", "n", " ", "r", "e", "a", "d", " ", "i", "t", ".", " ", "D",
      "o", "n", "e">>
txtActionSteps ==
    <<"O", "p", "e", "n", " ", "t", "h", "e", " ", "f", "i", "l", "e", " ", "n", "o", "w", ".",
      " ", "G", "o", ".", " ", "R", "e", "a", "d", " ", "e", "v", "e", "r", "y", " ", "l", "i",
      "n", "e", " ", "o", "f", " ", "t", "h", "e", " ", "f", "i", "l", "e", "?">>
StepTexts ==
    {NumberedList(n) : n \in 1..MaxSteps}
    \cup {txtDecisions, txtChecks, txtKeywordSteps, txtActionSteps, txtScenario, txtEmpty}

(***************************************************************************)
(* generateDiagramFromText and the renderers it dispatches to.             *)
(***************************************************************************)
sqHeader == <<"s", "e", "q", "u", "e", "n", "c", "e", "D", "i", "a", "g", "r", "a", "m", "\n">>
sqParticipant ==
    <<" ", " ", " ", " ", "p", "a", "r", "t", "i", "c", "i", "p", "a", "n", "t", " ">>
sqSolid == <<"-", ">", ">">>
sqDashed == <<"-", "-", ">", ">">>
sqColon == <<":", " ">>
sqActivate == <<"-", ">", ">", "+">>
sqRequest == <<":", " ", "R", "e", "q", "u", "e", "s", "t", "\n">>
sqDeactivate == <<"-", "-", ">", ">", "-">>
sqResponse == <<":", " ", "R", "e", "s", "p", "o", "n", "s", "e", "\n">>
strReturn == <<"r", "e", "t", "u", "r", "n">>
strRespond == <<"r", "e", "s", "p", "o", "n", "d">>
strResponse == <<"r", "e", "s", "p", "o", "n", "s", "e">>

\* arrowType: dashed for responses and returns
ArrowType(label) ==
    IF Includes(label, strReturn) \/ Includes(label, strRespond) \/ Includes(label, strResponse)
    THEN sqDashed
    ELSE sqSolid

generateSequenceDiagram(entities, relationships) ==
    sqHeader
    \o Flatten([i \in DOMAIN entities |-> sqParticipant \o entities[i] \o strNewline])
    \o Flatten([k \in DOMAIN relationships |->
                   strIndent \o relationships[k].from \o ArrowType(relationships[k].label)
                   \o relationships[k].to \o sqColon \o relationships[k].label \o strNewline])
    \o (IF Len(relationships) = 0 /\ Len(entities) > 1
        THEN Flatten([i \in 1..(Len(entities) - 1) |->
                         strIndent \o entities[i] \o sqActivate \o entities[i + 1] \o sqRequest
                         \o strIndent \o entities[i + 1] \o sqDeactivate \o entities[i]
                         \o sqResponse])
        ELSE <<>>)

erHeader == <<"e", "r", "D", "i", "a", "g", "r", "a", "m", "\n">>
erOneToMany == <<"|", "|", "-", "-", "o", "{">>
erOneToOne == <<"|", "|", "-", "-", "|", "|">>
erManyToMany == <<"}", "o", "-", "-", "o", "{">>
erManyToOne == <<"}", "o", "-", "-", "|", "|">>
erLabelOpen == <<" ", ":", " ", "\"">>
erLabelClose == <<"\"", "\n">>
erDefaultLine == <<" ", "|", "|", "-", "-", "o", "{", " ">>
erDefaultLabel == <<" ", ":", " ", "\"", "h", "a", "s", "\"", "\n">>
strSpace == <<" ">>
strOneToOne == <<"o", "n", "e", "-", "t", "o", "-", "o", "n", "e">>
strOneOne == <<"1", ":", "1">>
strManyToMany == <<"m", "a", "n", "y", "-", "t", "o", "-", "m", "a", "n", "y">>
strMN == <<"m", ":", "n">>
strNM == <<"n", ":", "m">>
strOneToMany == <<"o", "n", "e", "-", "t", "o", "-", "m", "a", "n", "y">>
strOneN == <<"1", ":", "n">>
strHasMany == <<"h", "a", "s", " ", "m", "a", "n", "y">>
strHaveMany == <<"h", "a", "v", "e", " ", "m", "a", "n", "y">>
strManyToOne == <<"m", "a", "n", "y", "-", "t", "o", "-", "o", "n", "e">>
strNOne == <<"n", ":", "1">>

ToUpperChar(c) ==
    IF c \in LowerChars THEN UpperSeq[CHOOSE k \in DOMAIN LowerSeq : LowerSeq[k] = c] ELSE c
toUpperCase(s) == [k \in DOMAIN s |-> ToUpperChar(s[k])]

\* cardinality by relationship label
cardinality(label) ==
    IF Includes(label, strOneToOne) \/ Includes(label, strOneOne) THEN erOneToOne
    ELSE IF Includes(label, strManyToMany) \/ Includes(label, strMN) \/ Includes(label, strNM)
    THEN erManyToMany
    ELSE IF \/ Includes(label, strOneToMany) \/ Includes(label, strOneN)
            \/ Includes(label, strHasMany) \/ Includes(label, strHaveMany)
    THEN erOneToMany
    ELSE IF Includes(label, strManyToOne) \/ Includes(label, strNOne) THEN erManyToOne
    ELSE erOneToMany

generateERDiagram(entities, relationships) ==
    erHeader
    \o Flatten([k \in DOMAIN relationships |->
                   strIndent \o toUpperCase(relationships[k].from) \o strSpace
                   \o cardinality(relationships[k].label) \o strSpace
                   \o toUpperCase(relationships[k].to) \o erLabelOpen
                   \o relationships[k].label \o erLabelClose])
    \o (IF Len(relationships) = 0 /\ Len(entities) > 1
        THEN Flatten([i \in 1..(Len(entities) - 1) |->
                         strIndent \o toUpperCase(entities[i]) \o erDefaultLine
                         \o toUpperCase(entities[i + 1]) \o erDefaultLabel])
        ELSE <<>>)

\* the placeholder diagrams of the renderers that ignore the description
tplStateDiagram ==
    <<"s", "t", "a", "t", "e", "D", "i", "a", "g", "r", "a", "m", "-", "v", "2", "\n", " ",
      " ", " ", " ", "[", "*", "]", " ", "-", "-", ">", " ", "S", "t", "i", "l", "l", "\n",
      " ", " ", " ", " ", "S", "t", "i", "l", "l", " ", "-", "-", ">", " ", "[", "*", "]",
      "\n", " ", " ", " ", " ", "S", "t", "i", "l", "l", " ", "-", "-", ">", " ", "M", "o",
      "v", "i", "n", "g", "\n", " ", " ", " ", " ", "M", "o", "v", "i", "n", "g", " ", "-",
      "-", ">", " ", "S", "t", "i", "l", "l", "\n", " ", " ", " ", " ", "M", "o", "v", "i",
      "n", "g", " ", "-", "-", ">", " ", "C", "r", "a", "s", "h", "\n", " ", " ", " ", " ",
      "C", "r", "a", "s", "h", " ", "-", "-", ">", " ", "[", "*", "]">>
tplUserJourney ==
    <<"j", "o", "u", "r", "n", "e", "y", "\n", " ", " ", " ", " ", "t", "i", "t", "l", "e",
      " ", "M", "y", " ", "w", "o", "r", "k", "i", "n", "g", " ", "d", "a", "y", "\n", " ",
      " ", " ", " ", "s", "e", "c", "t", "i", "o", "n", " ", "G", "o", " ", "t", "o", " ", "w",
      "o", "r", "k", "\n", " ", " ", " ", " ", " ", " ", "M", "a", "k", "e", " ", "t", "e",
      "a", ":", " ", "5", ":", " ", "M", "e", "\n", " ", " ", " ", " ", " ", " ", "G", "o",
      " ", "u", "p", "s", "t", "a", "i", "r", "s", ":", " ", "3", ":", " ", "M", "e", "\n",
      " ", " ", " ", " ", " ", " ", "D", "o", " ", "w", "o", "r", "k", ":", " ", "1", ":", " ",
      "M", "e", ",", " ", "C", "a", "t", "\n", " ", " ", " ", " ", "s", "e", "c", "t", "i",
      "o", "n", " ", "G", "o", " ", "h", "o", "m", "e", "\n", " ", " ", " ", " ", " ", " ",
      "G", "o", " ", "d", "o", "w", "n", "s", "t", "a", "i", "r", "s", ":", " ", "5", ":", " ",
      "M", "e", "\n", " ", " ", " ", " ", " ", " ", "S", "i", "t", " ", "d", "o", "w", "n",
      ":", " ", "5", ":", " ", "M", "e">>
tplGantt ==
    <<"g", "a", "n", "t", "t", "\n", " ", " ", " ", " ", "t", "i", "t", "l", "e", " ", "A",
      " ", "G", "a", "n", "t", "t", " ", "D", "i", "a", "g", "r", "a", "m", "\n", " ", " ",
      " ", " ", "d", "a", "t", "e", "F", "o", "r", "m", "a", "t", " ", " ", "Y", "Y", "Y", "Y",
      "-", "M", "M", "-", "D", "D", "\n", " ", " ", " ", " ", "s", "e", "c", "t", "i", "o",
      "n", " ", "S", "e", "c", "t", "i", "o", "n", "\n", " ", " ", " ", " ", "A", " ", "t",
      "a", "s", "k", " ", " ", " ", " ", " ", " ", " ", " ", " ", " ", " ", ":", "a", "1", ",",
      " ", "2", "0", "2", "3", "-", "0", "1", "-", "0", "1", ",", " ", "3", "0", "d", "\n",
      " ", " ", " ", " ", "A", "n", "o", "t", "h", "e", "r", " ", "t", "a", "s", "k", " ", " ",
      " ", " ", " ", ":", "a", "f", "t", "e", "r", " ", "a", "1", ",", " ", "2", "0", "d",
      "\n", " ", " ", " ", " ", "s", "e", "c", "t", "i", "o", "n", " ", "A", "n", "o", "t",
      "h", "e", "r", "\n", " ", " ", " ", " ", "T", "a", "s", "k", " ", "i", "n", " ", "s",
      "e", "c", " ", " ", " ", " ", " ", " ", ":", "2", "0", "2", "3", "-", "0", "1", "-", "1",
      "2", ",", " ", "1", "2", "d", "\n", " ", " ", " ", " ", "a", "n", "o", "t", "h", "e",
      "r", " ", "t", "a", "s", "k", " ", " ", " ", " ", " ", ":", "2", "4", "d">>
tplPieChart ==
    <<"p", "i", "e", " ", "t", "i", "t", "l", "e", " ", "D", "i", "s", "t", "r", "i", "b", "u",
      "t", "i", "o", "n", "\n", " ", " ", " ", " ", "\"", "A", "\"", " ", ":", " ", "4", "2",
      ".", "9", "6", "\n", " ", " ", " ", " ", "\"", "B", "\"", " ", ":", " ", "5", "0", ".",
      "0", "5", "\n", " ", " ", " ", " ", "\"", "C", "\"", " ", ":", " ", "6", ".", "9", "9">>
tplQuadrantChart ==
    <<"q", "u", "a", "d", "r", "a", "n", "t", "C", "h", "a", "r", "t", "\n", " ", " ", " ",
      " ", "t", "i", "t", "l", "e", " ", "R", "e", "a", "c", "h", " ", "a", "n", "d", " ", "e",
      "n", "g", "a", "g", "e", "m", "e", "n", "t", " ", "o", "f", " ", "c", "a", "m", "p", "a",
      "i", "g", "n", "s", "\n", " ", " ", " ", " ", "x", "-", "a", "x", "i", "s", " ", "L",
      "o", "w", " ", "R", "e", "a", "c", "h", " ", "-", "-", ">", " ", "H", "i", "g", "h", " ",
      "R", "e", "a", "c", "h", "\n", " ", " ", " ", " ", "y", "-", "a", "x", "i", "s", " ",
      "L", "o", "w", " ", "E", "n", "g", "a", "g", "e", "m", "e", "n", "t", " ", "-", "-", ">",
      " ", "H", "i", "g", "h", " ", "E", "n", "g", "a", "g", "e", "m", "e", "n", "t", "\n",
      " ", " ", " ", " ", "q", "u", "a", "d", "r", "a", "n", "t", "-", "1", " ", "W", "e", " ",
      "s", "h", "o", "u", "l", "d", " ", "e", "x", "p", "a", "n", "d", "\n", " ", " ", " ",
      " ", "q", "u", "a", "d", "r", "a", "n", "t", "-", "2", " ", "N", "e", "e", "d", " ", "t",
      "o", " ", "p", "r", "o", "m", "o", "t", "e", "\n", " ", " ", " ", " ", "q", "u", "a",
      "d", "r", "a", "n", "t", "-", "3", " ", "R", "e", "-", "e", "v", "a", "l", "u", "a", "t",
      "e", "\n", " ", " ", " ", " ", "q", "u", "a", "d", "r", "a", "n", "t", "-", "4", " ",
      "M", "a", "y", " ", "b", "e", " ", "i", "m", "p", "r", "o", "v", "e", "d", "\n", " ",
      " ", " ", " ", "C", "a", "m", "p", "a", "i", "g", "n", " ", "A", ":", " ", "[", "0", ".",
      "3", ",", " ", "0", ".", "6", "]", "\n", " ", " ", " ", " ", "C", "a", "m", "p", "a",
      "i", "g", "n", " ", "B", ":", " ", "[", "0", ".", "4", "5", ",", " ", "0", ".", "2", "3",
      "]", "\n", " ", " ", " ", " ", "C", "a", "m", "p", "a", "i", "g", "n", " ", "C", ":",
      " ", "[", "0", ".", "5", "7", ",", " ", "0", ".", "6", "9", "]", "\n", " ", " ", " ",
      " ", "C", "a", "m", "p", "a", "i", "g", "n", " ", "D", ":", " ", "[", "0", ".", "7", "8",
      ",", " ", "0", ".", "3", "4", "]", "\n", " ", " ", " ", " ", "C", "a", "m", "p", "a",
      "i", "g", "n", " ", "E", ":", " ", "[", "0", ".", "4", "0", ",", " ", "0", ".", "3", "4",
      "]", "\n", " ", " ", " ", " ", "C", "a", "m", "p", "a", "i", "g", "n", " ", "F", ":",
      " ", "[", "0", ".", "3", "5", ",", " ", "0", ".", "7", "8", "]">>
tplRequirementDiagram ==
    <<"r", "e", "q", "u", "i", "r", "e", "m", "e", "n", "t", "D", "i", "a", "g", "r", "a", "m",
      "\n", " ", " ", " ", " ", "r", "e", "q", "u", "i", "r", "e", "m", "e", "n", "t", " ",
      "t", "e", "s", "t", "_", "r", "e", "q", " ", "{", "\n", " ", " ", " ", " ", "i", "d",
      ":", " ", "1", "\n", " ", " ", " ", " ", "t", "e", "x", "t", ":", " ", "t", "h", "e",
      " ", "t", "e", "s", "t", " ", "t", "e", "x", "t", ".", "\n", " ", " ", " ", " ", "r",
      "i", "s", "k", ":", " ", "h", "i", "g", "h", "\n", " ", " ", " ", " ", "v", "e", "r",
      "i", "f", "y", "m", "e", "t", "h", "o", "d", ":", " ", "t", "e", "s", "t", "\n", " ",
      " ", " ", " ", "}", "\n", " ", " ", " ", " ", "e", "l", "e", "m", "e", "n", "t", " ",
      "t", "e", "s", "t", "_", "e", "n", "t", "i", "t", "y", " ", "{", "\n", " ", " ", " ",
      " ", "t", "y", "p", "e", ":", " ", "s", "i", "m", "u", "l", "a", "t", "i", "o", "n",
      "\n", " ", " ", " ", " ", "}", "\n", " ", " ", " ", " ", "t", "e", "s", "t", "_", "e",
      "n", "t", "i", "t", "y", " ", "-", " ", "s", "a", "t", "i", "s", "f", "i", "e", "s", " ",
      "-", ">", " ", "t", "e", "s", "t", "_", "r", "e", "q">>
tplGitGraph ==
    <<"g", "i", "t", "G", "r", "a", "p", "h", "\n", " ", " ", " ", " ", "c", "o", "m", "m",
      "i", "t", "\n", " ", " ", " ", " ", "b", "r", "a", "n", "c", "h", " ", "d", "e", "v",
      "e", "l", "o", "p", "\n", " ", " ", " ", " ", "c", "h", "e", "c", "k", "o", "u", "t",
      " ", "d", "e", "v", "e", "l", "o", "p", "\n", " ", " ", " ", " ", "c", "o", "m", "m",
      "i", "t", "\n", " ", " ", " ", " ", "c", "o", "m", "m", "i", "t", "\n", " ", " ", " ",
      " ", "c", "h", "e", "c", "k", "o", "u", "t", " ", "m", "a", "i", "n", "\n", " ", " ",
      " ", " ", "m", "e", "r", "g", "e", " ", "d", "e", "v", "e", "l", "o", "p", "\n", " ",
      " ", " ", " ", "c", "o", "m", "m", "i", "t", "\n", " ", " ", " ", " ", "c", "o", "m",
      "m", "i", "t">>
tplC4Diagram ==
    <<"C", "4", "C", "o", "n", "t", "e", "x", "t", "\n", " ", " ", " ", " ", "t", "i", "t",
      "l", "e", " ", "S", "y", "s", "t", "e", "m", " ", "C", "o", "n", "t", "e", "x", "t", " ",
      "d", "i", "a", "g", "r", "a", "m", " ", "f", "o", "r", " ", "I", "n", "t", "e", "r", "n",
      "e", "t", " ", "B", "a", "n", "k", "i", "n", "g", " ", "S", "y", "s", "t", "e", "m",
      "\n", " ", " ", " ", " ", "E", "n", "t", "e", "r", "p", "r", "i", "s", "e", "_", "B",
      "o", "u", "n", "d", "a", "r", "y", "(", "b", "0", ",", " ", "\"", "B", "a", "n", "k",
      "B", "o", "u", "n", "d", "a", "r", "y", "\"", ")", " ", "{", "\n", " ", " ", " ", " ",
      " ", " ", "P", "e", "r", "s", "o", "n", "(", "c", "u", "s", "t", "o", "m", "e", "r", ",",
      " ", "\"", "B", "a", "n", "k", "i", "n", "g", " ", "C", "u", "s", "t", "o", "m", "e",
      "r", "\"", ",", " ", "\"", "A", " ", "c", "u", "s", "t", "o", "m", "e", "r", " ", "o",
      "f", " ", "t", "h", "e", " ", "b", "a", "n", "k", "\"", ")", "\n", " ", " ", " ", " ",
      " ", " ", "S", "y", "s", "t", "e", "m", "(", "b", "a", "n", "k", "i", "n", "g", "_", "s",
      "y", "s", "t", "e", "m", ",", " ", "\"", "I", "n", "t", "e", "r", "n", "e", "t", " ",
      "B", "a", "n", "k", "i", "n", "g", " ", "S", "y", "s", "t", "e", "m", "\"", ",", " ",
      "\"", "A", "l", "l", "o", "w", "s", " ", "c", "u", "s", "t", "o", "m", "e", "r", "s",
      " ", "t", "o", " ", "v", "i", "e", "w", " ", "i", "n", "f", "o", "r", "m", "a", "t", "i",
      "o", "n", " ", "a", "b", "o", "u", "t", " ", "t", "h", "e", "i", "r", " ", "b", "a", "n",
      "k", " ", "a", "c", "c", "o", "u", "n", "t", "s", "\"", ")", "\n", " ", " ", " ", " ",
      " ", " ", "S", "y", "s", "t", "e", "m", "_", "E", "x", "t", "(", "m", "a", "i", "l", "_",
      "s", "y", "s", "t", "e", "m", ",", " ", "\"", "E", "-", "m", "a", "i", "l", " ", "s",
      "y", "s", "t", "e", "m", "\"", ",", " ", "\"", "T", "h", "e", " ", "i", "n", "t", "e",
      "r", "n", "a", "l", " ", "M", "i", "c", "r", "o", "s", "o", "f", "t", " ", "E", "x", "c",
      "h", "a", "n", "g", "e", " ", "e", "-", "m", "a", "i", "l", " ", "s", "y", "s", "t", "e",
      "m", "\"", ")", "\n", " ", " ", " ", " ", " ", " ", "S", "y", "s", "t", "e", "m", "_",
      "E", "x", "t", "(", "m", "a", "i", "n", "f", "r", "a", "m", "e", ",", " ", "\"", "M",
      "a", "i", "n", "f", "r", "a", "m", "e", " ", "B", "a", "n", "k", "i", "n", "g", " ", "S",
      "y", "s", "t", "e", "m", "\"", ",", " ", "\"", "S", "t", "o", "r", "e", "s", " ", "a",
      "l", "l", " ", "o", "f", " ", "t", "h", "e", " ", "c", "o", "r", "e", " ", "b", "a", "n",
      "k", "i", "n", "g", " ", "i", "n", "f", "o", "r", "m", "a", "t", "i", "o", "n", " ", "a",
      "b", "o", "u", "t", " ", "c", "u", "s", "t", "o", "m", "e", "r", "s", ",", " ", "a", "c",
      "c", "o", "u", "n", "t", "s", ",", " ", "t", "r", "a", "n", "s", "a", "c", "t", "i", "o",
      "n", "s", ",", " ", "e", "t", "c", ".", "\"", ")", "\n", " ", " ", " ", " ", "}", "\n",
      " ", " ", " ", " ", "R", "e", "l", "(", "c", "u", "s", "t", "o", "m", "e", "r", ",", " ",
      "b", "a", "n", "k", "i", "n", "g", "_", "s", "y", "s", "t", "e", "m", ",", " ", "\"",
      "U", "s", "e", "s", "\"", ")", "\n", " ", " ", " ", " ", "R", "e", "l", "_", "B", "a",
      "c", "k", "(", "c", "u", "s", "t", "o", "m", "e", "r", ",", " ", "m", "a", "i", "l", "_",
      "s", "y", "s", "t", "e", "m", ",", " ", "\"", "S", "e", "n", "d", "s", " ", "e", "-",
      "m", "a", "i", "l", "s", " ", "t", "o", "\"", ")", "\n", " ", " ", " ", " ", "R", "e",
      "l", "_", "N", "e", "i", "g", "h", "b", "o", "r", "(", "b", "a", "n", "k", "i", "n", "g",
      "_", "s", "y", "s", "t", "e", "m", ",", " ", "m", "a", "i", "l", "_", "s", "y", "s", "t",
      "e", "m", ",", " ", "\"", "S", "e", "n", "d", "s", " ", "e", "-", "m", "a", "i", "l",
      "s", "\"", ",", " ", "\"", "S", "M", "T", "P", "\"", ")", "\n", " ", " ", " ", " ", "R",
      "e", "l", "(", "b", "a", "n", "k", "i", "n", "g", "_", "s", "y", "s", "t", "e", "m", ",",
      " ", "m", "a", "i", "n", "f", "r", "a", "m", "e", ",", " ", "\"", "U", "s", "e", "s",
      "\"", ")">>
tplUnsupportedHead ==
    <<"f", "l", "o", "w", "c", "h", "a", "r", "t", " ", "T", "D", "\n", " ", " ", " ", " ",
      "A", "[", "S", "t", "a", "r", "t", "]", " ", "-", "-", ">", " ", "B", "[", "E", "n", "d",
      "]", "\n", " ", " ", " ", " ", "n", "o", "t", "e", " ", "\"", "C", "o", "u", "l", "d",
      " ", "n", "o", "t", " ", "g", "e", "n", "e", "r", "a", "t", "e", " ", "s", "p", "e", "c",
      "i", "f", "i", "c", " ", "d", "i", "a", "g", "r", "a", "m", " ", "t", "y", "p", "e", ":",
      " ">>
tplUnsupportedTail ==
    <<"\"", " ", "a", "s", " ", "N", "\n", " ", " ", " ", " ", "A", " ", "-", "-", "-", " ",
      "N">>

\* the default of the switch: a note names the unsupported diagram type
UnsupportedTypeDiagram(diagramType) == tplUnsupportedHead \o diagramType \o tplUnsupportedTail

\* a diagram type none of the cases names
kwMindmap == <<"m", "i", "n", "d", "m", "a", "p">>
DiagramTypes == DiagramTypeKeywords \cup {kwMindmap}

\* the switch over diagramType
RenderText(diagramType, description, entities, relationships) ==
    CASE diagramType = kwClassDiagram -> generateClassDiagram(entities, relationships)
      [] diagramType = kwFlowchart -> generateFlowchart(description)
      [] diagramType = kwSequenceDiagram -> generateSequenceDiagram(entities, relationships)
      [] diagramType = kwEntityRelationshipDiagram -> generateERDiagram(entities, relationships)
      [] diagramType = kwStateDiagram -> tplStateDiagram
      [] diagramType = kwUserJourney -> tplUserJourney
      [] diagramType = kwGantt -> tplGantt
      [] diagramType = kwPieChart -> tplPieChart
      [] diagramType = kwQuadrantChart -> tplQuadrantChart
      [] diagramType = kwRequirementDiagram -> tplRequirementDiagram
      [] diagramType = kwGitGraph -> tplGitGraph
      [] diagramType = kwC4Diagram -> tplC4Diagram
      [] OTHER -> UnsupportedTypeDiagram(diagramType)

\* entities and relationships are extracted before the switch, whatever the type
generateDiagramFromText(diagramType, description) ==
    LET entities == extractEntities(description)
        extracted == extractRelationships(description, entities)
    IN  IF extracted.threw
        THEN [threw |-> TRUE, value |-> <<>>, entities |-> entities, relationships |-> <<>>]
        ELSE [threw |-> FALSE,
              value |-> RenderText(diagramType, description, entities, extracted.value),
              entities |-> entities, relationships |-> extracted.value]

(***************************************************************************)
(* Rendering from repository data (generators/github-generator.ts).        *)
(* repoData is what fetchRepositoryData returns: contents lists the        *)
(* top-level entries, description is info.description if there is one,     *)
(* dependencies is what analyzeCodeDependencies finds in codeFiles (empty  *)
(* when there are no code files).  The class and sequence renderers are    *)
(* modelled for repositories without code files, the pie chart for         *)
(* repositories without language data.                                     *)
(***************************************************************************)
MaxEntries == 11
maxShownFiles == 10

ghRepoOpen == <<" ", " ", " ", " ", "R", "e", "p", "o", "[">>
ghSlash == <<"/">>
ghDir == <<"D", "i", "r">>
ghFile == <<"F", "i", "l", "e">>
ghDirClose == <<"/", "]", "\n">>
ghRepoTo == <<" ", " ", " ", " ", "R", "e", "p", "o", " ", "-", "-", ">", " ">>
ghMoreOpen == <<" ", " ", " ", " ", "M", "o", "r", "e", "[", ".", ".", ".", " ">>
ghMoreClose == <<" ", "m", "o", "r", "e", " ", "f", "i", "l", "e", "s", "]", "\n">>
ghRepoToMore ==
    <<" ", " ", " ", " ", "R", "e", "p", "o", " ", "-", "-", ">", " ", "M", "o", "r", "e",
      "\n">>
ghImports == <<":", " ", "i", "m", "p", "o", "r", "t", "s", "\n">>
strDirType == "dir"
strFileType == "file"

\* the names of the entries of contents of one type, in order
NamesOfType(contents, type) ==
    LET picked == SelectSeq(contents, LAMBDA item : item.type = type)
    IN  [k \in DOMAIN picked |-> picked[k].name]

\* position after the last "/" of path (1 if there is none)
RECURSIVE AfterLastSlash(_, _)
AfterLastSlash(path, i) ==
    IF i < 1 THEN 1 ELSE IF path[i] = "/" THEN i + 1 ELSE AfterLastSlash(path, i - 1)

\* path.split('/').pop() || path
SimpleFileName(path) ==
    IF AfterLastSlash(path, Len(path)) > Len(path) THEN path
    ELSE SubSeq(path, AfterLastSlash(path, Len(path)), Len(path))

Min(a, b) == IF a < b THEN a ELSE b

generateRepoFlowchart(owner, repo, repoData) ==
    LET directories == NamesOfType(repoData.contents, strDirType)
        files == NamesOfType(repoData.contents, strFileType)
        maxFiles == Min(Len(files), maxShownFiles)
    IN  fcHeader
        \o ghRepoOpen \o owner \o ghSlash \o repo \o fcBracketClose
        \o Flatten([k \in DOMAIN directories |->
                       strIndent \o ghDir \o Decimal(k - 1) \o fcBracketOpen
                       \o directories[k] \o ghDirClose
                       \o ghRepoTo \o ghDir \o Decimal(k - 1) \o strNewline])
        \o Flatten([k \in 1..maxFiles |->
                       strIndent \o ghFile \o Decimal(k - 1) \o fcBracketOpen
                       \o files[k] \o fcBracketClose
                       \o ghRepoTo \o ghFile \o Decimal(k - 1) \o strNewline])
        \o (IF Len(files) > maxFiles
            THEN ghMoreOpen \o Decimal(Len(files) - maxFiles) \o ghMoreClose \o ghRepoToMore
            ELSE <<>>)
        \o Flatten([k \in DOMAIN repoData.dependencies |->
                       strIndent \o SimpleFileName(repoData.dependencies[k].from) \o fcTo
                       \o SimpleFileName(repoData.dependencies[k].to) \o ghImports])

ghPieOpen ==
    <<"p", "i", "e", " ", "t", "i", "t", "l", "e", " ", "L", "a", "n", "g", "u", "a", "g", "e",
      " ", "D", "i", "s", "t", "r", "i", "b", "u", "t", "i", "o", "n", " ", "f", "o", "r", " ">>
ghPieUnknown ==
    <<" ", " ", " ", " ", "\"", "U", "n", "k", "n", "o", "w", "n", "\"", " ", ":", " ", "1",
      "0", "0", "\n">>
generateRepoLanguagePieChart(owner, repo, repoData) ==
    ghPieOpen \o owner \o ghSlash \o repo \o strNewline \o ghPieUnknown

ghClassFallback ==
    <<" ", " ", " ", " ", "c", "l", "a", "s", "s", " ", "R", "e", "p", "o", "s", "i", "t", "o",
      "r", "y", " ", "{", "\n", " ", " ", " ", " ", " ", " ", " ", " ", "+", "S", "t", "r",
      "i", "n", "g", " ", "n", "a", "m", "e", "\n", " ", " ", " ", " ", " ", " ", " ", " ",
      "+", "S", "t", "r", "i", "n", "g", " ", "o", "w", "n", "e", "r", "\n", " ", " ", " ",
      " ", " ", " ", " ", " ", "+", "S", "t", "r", "i", "n", "g", " ", "d", "e", "s", "c", "r",
      "i", "p", "t", "i", "o", "n", "\n", " ", " ", " ", " ", " ", " ", " ", " ", "+", "g",
      "e", "t", "C", "o", "n", "t", "e", "n", "t", "s", "(", ")", "\n", " ", " ", " ", " ",
      " ", " ", " ", " ", "+", "g", "e", "t", "L", "a", "n", "g", "u", "a", "g", "e", "s", "(",
      ")", "\n", " ", " ", " ", " ", "}", "\n", " ", " ", " ", " ", "c", "l", "a", "s", "s",
      " ", "F", "i", "l", "e", " ", "{", "\n", " ", " ", " ", " ", " ", " ", " ", " ", "+",
      "S", "t", "r", "i", "n", "g", " ", "n", "a", "m", "e", "\n", " ", " ", " ", " ", " ",
      " ", " ", " ", "+", "S", "t", "r", "i", "n", "g", " ", "p", "a", "t", "h", "\n", " ",
      " ", " ", " ", " ", " ", " ", " ", "+", "S", "t", "r", "i", "n", "g", " ", "c", "o", "n",
      "t", "e", "n", "t", "\n", " ", " ", " ", " ", " ", " ", " ", " ", "+", "g", "e", "t",
      "C", "o", "n", "t", "e", "n", "t", "(", ")", "\n", " ", " ", " ", " ", "}", "\n", " ",
      " ", " ", " ", "c", "l", "a", "s", "s", " ", "D", "i", "r", "e", "c", "t", "o", "r", "y",
      " ", "{", "\n", " ", " ", " ", " ", " ", " ", " ", " ", "+", "S", "t", "r", "i", "n",
      "g", " ", "n", "a", "m", "e", "\n", " ", " ", " ", " ", " ", " ", " ", " ", "+", "S",
      "t", "r", "i", "n", "g", " ", "p", "a", "t", "h", "\n", " ", " ", " ", " ", " ", " ",
      " ", " ", "+", "g", "e", "t", "F", "i", "l", "e", "s", "(", ")", "\n", " ", " ", " ",
      " ", " ", " ", " ", " ", "+", "g", "e", "t", "S", "u", "b", "d", "i", "r", "e", "c", "t",
      "o", "r", "i", "e", "s", "(", ")", "\n", " ", " ", " ", " ", "}", "\n", " ", " ", " ",
      " ", "R", "e", "p", "o", "s", "i", "t", "o", "r", "y", " ", "*", "-", "-", " ", "F", "i",
      "l", "e", " ", ":", " ", "c", "o", "n", "t", "a", "i", "n", "s", "\n", " ", " ", " ",
      " ", "R", "e", "p", "o", "s", "i", "t", "o", "r", "y", " ", "*", "-", "-", " ", "D", "i",
      "r", "e", "c", "t", "o", "r", "y", " ", ":", " ", "c", "o", "n", "t", "a", "i", "n", "s",
      "\n", " ", " ", " ", " ", "D", "i", "r", "e", "c", "t", "o", "r", "y", " ", "*", "-",
      "-", " ", "F", "i", "l", "e", " ", ":", " ", "c", "o", "n", "t", "a", "i", "n", "s">>
generateRepoClassDiagram(owner, repo, repoData) == cdHeader \o ghClassFallback

ghSoftwareSystem ==
    <<"A", " ", "s", "o", "f", "t", "w", "a", "r", "e", " ", "s", "y", "s", "t", "e", "m">>
\* repoData.info?.description || 'A software system'
RepoDescription(repoData) ==
    IF repoData.description = <<>> \/ repoData.description[1] = <<>> THEN ghSoftwareSystem
    ELSE repoData.description[1]

ghC4Part1 ==
    <<"C", "4", "C", "o", "n", "t", "e", "x", "t", "\n", " ", " ", " ", " ", "t", "i", "t",
      "l", "e", " ", "S", "y", "s", "t", "e", "m", " ", "C", "o", "n", "t", "e", "x", "t", " ",
      "d", "i", "a", "g", "r", "a", "m", " ", "f", "o", "r", " ">>
ghC4Part2 ==
    <<"\n", " ", " ", " ", " ", "E", "n", "t", "e", "r", "p", "r", "i", "s", "e", "_", "B",
      "o", "u", "n", "d", "a", "r", "y", "(", "b", "0", ",", " ", "\"">>
ghC4Part3 ==
    <<"\"", ")", " ", "{", "\n", " ", " ", " ", " ", " ", " ", "P", "e", "r", "s", "o", "n",
      "(", "u", "s", "e", "r", ",", " ", "\"", "U", "s", "e", "r", "\"", ",", " ", "\"", "A",
      " ", "u", "s", "e", "r", " ", "o", "f", " ", "t", "h", "e", " ", "s", "y", "s", "t", "e",
      "m", "\"", ")", "\n", " ", " ", " ", " ", " ", " ", "S", "y", "s", "t", "e", "m", "(",
      "s", "y", "s", "t", "e", "m", ",", " ", "\"">>
ghC4Part4 == <<"\"", ",", " ", "\"">>
ghC4Part5 ==
    <<"\"", ")", "\n", " ", " ", " ", " ", "}", "\n", " ", " ", " ", " ", "S", "y", "s", "t",
      "e", "m", "_", "E", "x", "t", "(", "e", "x", "t", "e", "r", "n", "a", "l", ",", " ",
      "\"", "E", "x", "t", "e", "r", "n", "a", "l", " ", "S", "y", "s", "t", "e", "m", "\"",
      ",", " ", "\"", "A", "n", " ", "e", "x", "t", "e", "r", "n", "a", "l", " ", "s", "y",
      "s", "t", "e", "m", " ", "t", "h", "a", "t", " ">>
ghC4Part6 ==
    <<" ", "i", "n", "t", "e", "r", "a", "c", "t", "s", " ", "w", "i", "t", "h", "\"", ")",
      "\n", " ", " ", " ", " ", "R", "e", "l", "(", "u", "s", "e", "r", ",", " ", "s", "y",
      "s", "t", "e", "m", ",", " ", "\"", "U", "s", "e", "s", "\"", ")", "\n", " ", " ", " ",
      " ", "R", "e", "l", "(", "s", "y", "s", "t", "e", "m", ",", " ", "e", "x", "t", "e", "r",
      "n", "a", "l", ",", " ", "\"", "C", "a", "l", "l", "s", " ", "A", "P", "I", "\"", ")">>
generateRepoC4Diagram(owner, repo, repoData) ==
    ghC4Part1 \o repo \o ghC4Part2 \o owner \o ghC4Part3 \o repo \o ghC4Part4
    \o RepoDescription(repoData) \o ghC4Part5 \o repo \o ghC4Part6

ghSeqPart1 ==
    <<"s", "e", "q", "u", "e", "n", "c", "e", "D", "i", "a", "g", "r", "a", "m", "\n", " ",
      " ", " ", " ", "p", "a", "r", "t", "i", "c", "i", "p", "a", "n", "t", " ", "U", "s", "e",
      "r", "\n", " ", " ", " ", " ", "p", "a", "r", "t", "i", "c", "i", "p", "a", "n", "t",
      " ">>
ghSeqPart2 ==
    <<"\n", " ", " ", " ", " ", "p", "a", "r", "t", "i", "c", "i", "p", "a", "n", "t", " ",
      "D", "a", "t", "a", "b", "a", "s", "e", "\n", " ", " ", " ", " ", "U", "s", "e", "r",
      "-", ">", ">", "+">>
ghSeqPart3 == <<":", " ", "R", "e", "q", "u", "e", "s", "t", "\n", " ", " ", " ", " ">>
ghSeqPart4 ==
    <<"-", ">", ">", "+", "D", "a", "t", "a", "b", "a", "s", "e", ":", " ", "Q", "u", "e", "r",
      "y", "\n", " ", " ", " ", " ", "D", "a", "t", "a", "b", "a", "s", "e", "-", "-", ">",
      ">", "-">>
ghSeqPart5 == <<":", " ", "R", "e", "s", "u", "l", "t", "s", "\n", " ", " ", " ", " ">>
ghSeqPart6 ==
    <<"-", "-", ">", ">", "-", "U", "s", "e", "r", ":", " ", "R", "e", "s", "p", "o", "n", "s",
      "e">>
generateRepoSequenceDiagram(owner, repo, repoData) ==
    ghSeqPart1 \o repo \o ghSeqPart2 \o repo \o ghSeqPart3 \o repo \o ghSeqPart4 \o repo
    \o ghSeqPart5 \o repo \o ghSeqPart6

\* the switch over diagramType; unsupported types get the repository flowchart
generateDiagramFromGithub(diagramType, owner, repo, repoData) ==
    CASE diagramType = kwFlowchart -> generateRepoFlowchart(owner, repo, repoData)
      [] diagramType = kwClassDiagram -> generateRepoClassDiagram(owner, repo, repoData)
      [] diagramType = kwC4Diagram -> generateRepoC4Diagram(owner, repo, repoData)
      [] diagramType = kwPieChart -> generateRepoLanguagePieChart(owner, repo, repoData)
      [] diagramType = kwSequenceDiagram -> generateRepoSequenceDiagram(owner, repo, repoData)
      [] OTHER -> generateRepoFlowchart(owner, repo, repoData)

\* repositories the renderers are exercised with
ghOwner == <<"o", "c", "t", "o">>
ghRepo == <<"a", "p", "p">>
ghSrcName == <<"s", "r", "c">>
ghFileName == <<"a", ".", "t", "s">>
ghPathMain == <<"s", "r", "c", "/", "m", "a", "i", "n", ".", "t", "s">>
ghPathUtil == <<"s", "r", "c", "/", "l", "i", "b", "/", "u", "t", "i", "l", ".", "t", "s">>
ghAbout == <<"D", "e", "m", "o", " ", "a", "p", "p">>
RepoContents(dirs, files) ==
    [k \in 1..(dirs + files) |->
        IF k <= dirs THEN [name |-> ghSrcName \o Decimal(k), type |-> strDirType]
        ELSE [name |-> Decimal(k - dirs) \o ghFileName, type |-> strFileType]]
NoCodeRepos ==
    {[contents |-> RepoContents(d, f), description |-> desc, dependencies |-> <<>>] :
        d \in {0, 2}, f \in {0, 1, maxShownFiles, MaxEntries}, desc \in {<<>>, <<ghAbout>>}}
CodeRepos ==
    {[contents |-> RepoContents(1, 2), description |-> <<ghAbout>>,
      dependencies |-> <<[from |-> ghPathMain, to |-> ghPathUtil]>>]}
GithubRequests ==
    {[op |-> "generateDiagramFromGithub", diagramType |-> t, owner |-> ghOwner,
      repo |-> ghRepo, repoData |-> d] : t \in DiagramTypes, d \in NoCodeRepos}
    \cup {[op |-> "generateDiagramFromGithub", diagramType |-> t, owner |-> ghOwner,
           repo |-> ghRepo, repoData |-> d] :
             t \in DiagramTypes \ {kwClassDiagram, kwSequenceDiagram}, d \in CodeRepos}

(***************************************************************************)
(* fetchCodeFiles (utils/github-api.ts): the recursive walk that collects  *)
(* the code files of a repository.  An entry of a directory listing is     *)
(* [type, name, path, fetchOk, children]: fetchOk tells whether the request*)
(* for the file's content or the directory's listing resolves, children is *)
(* the listing a directory request answers with.                           *)
(***************************************************************************)
defaultMaxFiles == 20
codeExtensions ==
    {<<".", "j", "s">>, <<".", "t", "s">>, <<".", "j", "s", "x">>, <<".", "t", "s", "x">>, <<".", "p", "y">>,
     <<".", "j", "a", "v", "a">>, <<".", "r", "b">>, <<".", "g", "o">>, <<".", "p", "h", "p">>, <<".", "c", "s">>,
     <<".", "c", "p", "p">>, <<".", "c">>, <<".", "h">>}

\* name.lastIndexOf('.'), counted from 0; -1 if there is none
lastIndexOf(name, ch) ==
    IF \E i \in DOMAIN name : name[i] = ch
    THEN (CHOOSE i \in DOMAIN name :
              name[i] = ch /\ \A j \in DOMAIN name : name[j] = ch => j <= i) - 1
    ELSE -1

\* item.name.substring(item.name.lastIndexOf('.')): a negative start counts as 0
FileExt(name) ==
    LET start == lastIndexOf(name, ".")
    IN  SubSeq(name, (IF start < 0 THEN 0 ELSE start) + 1, Len(name))

LanguageOf(fileExt) ==
    IF fileExt \in {<<".", "j", "s">>, <<".", "j", "s", "x">>} THEN "javascript"
    ELSE IF fileExt \in {<<".", "t", "s">>, <<".", "t", "s", "x">>} THEN "typescript"
    ELSE IF fileExt = <<".", "p", "y">> THEN "python"
    ELSE IF fileExt = <<".", "j", "a", "v", "a">> THEN "java"
    ELSE IF fileExt = <<".", "r", "b">> THEN "ruby"
    ELSE IF fileExt = <<".", "g", "o">> THEN "go"
    ELSE IF fileExt = <<".", "p", "h", "p">> THEN "php"
    ELSE IF fileExt = <<".", "c", "s">> THEN "csharp"
    ELSE IF fileExt \in {<<".", "c", "p", "p">>, <<".", "c">>, <<".", "h">>} THEN "cpp"
    ELSE "unknown"

\* the budget handed to the walk of a subdirectory, here the whole budget of
\* the caller
SubdirBudgetWhole(maxFiles, collected) == maxFiles
\* maxFiles - codeFiles.length
SubdirBudget(maxFiles, collected) == maxFiles - collected

\* The loop over contents from entry i on, codeFiles being what was collected
\* so far; a rejected request is logged and the entry skipped.
RECURSIVE CollectFrom(_, _, _, _)
CollectFrom(contents, i, maxFiles, codeFiles) ==
    IF i > Len(contents) \/ Len(codeFiles) >= maxFiles THEN codeFiles
    ELSE LET item == contents[i]
         IN  IF item.type = strFileType
             THEN IF FileExt(item.name) \in codeExtensions /\ item.fetchOk
                  THEN CollectFrom(contents, i + 1, maxFiles,
                                   Append(codeFiles,
                                          [path |-> item.path,
                                           language |-> LanguageOf(FileExt(item.name))]))
                  ELSE CollectFrom(contents, i + 1, maxFiles, codeFiles)
             ELSE IF item.type = strDirType /\ item.fetchOk
             THEN CollectFrom(contents, i + 1, maxFiles,
                              codeFiles
                              \o CollectFrom(item.children, 1,
                                             SubdirBudget(maxFiles, Len(codeFiles)), <<>>))
             ELSE CollectFrom(contents, i + 1, maxFiles, codeFiles)

fetchCodeFiles(contents, maxFiles) == CollectFrom(contents, 1, maxFiles, <<>>)

\* Repository trees the walk is exercised on.  A listing holds a read-me, then
\* `files` code files, then `dirs` subdirectories that each hold such a
\* listing again down to `depth`, then a file without extension and one more
\* code file.  With failEvery = m > 0 the request for every m-th file and
\* every m-th directory of a listing is rejected.
MaxDepth == 2
MaxTreeFiles == 21
MaxDirs == 2
MaxFailEvery == 3
ghReadme == <<"R", "E", "A", "D", "M", "E", ".", "m", "d">>
ghMakefile == <<"M", "a", "k", "e", "f", "i", "l", "e">>
ghMainPy == <<"m", "a", "i", "n", ".", "p", "y">>
ghTsExt == <<".", "t", "s">>
ghDirName == <<"p", "k", "g">>
ghSeparator == <<"/">>
Fails(k, failEvery) == failEvery > 0 /\ k % failEvery = 0
FileItem(prefix, name, ok) ==
    [type |-> strFileType, name |-> name, path |-> prefix \o name, fetchOk |-> ok,
     children |-> <<>>]
RECURSIVE Listing(_, _, _, _, _)
Listing(depth, files, dirs, failEvery, prefix) ==
    <<FileItem(prefix, ghReadme, TRUE)>>
    \o [k \in 1..files |->
           FileItem(prefix, Decimal(k) \o ghTsExt, ~Fails(k, failEvery))]
    \o (IF depth = 0 THEN <<>>
        ELSE [k \in 1..dirs |->
                 [type |-> strDirType, name |-> ghDirName \o Decimal(k),
                  path |-> prefix \o ghDirName \o Decimal(k),
                  fetchOk |-> ~Fails(k, failEvery),
                  children |-> Listing(depth - 1, files, dirs, failEvery,
                                       prefix \o ghDirName \o Decimal(k) \o ghSeparator)]])
    \o <<FileItem(prefix, ghMakefile, TRUE), FileItem(prefix, ghMainPy, TRUE)>>

\* the number of code files of a tree whose requests would all resolve
RECURSIVE CodeFilesIn(_)
CodeFilesIn(contents) ==
    IF contents = <<>> THEN 0
    ELSE LET item == Head(contents)
         IN  (IF item.type = strFileType
              THEN (IF FileExt(item.name) \in codeExtensions THEN 1 ELSE 0)
              ELSE CodeFilesIn(item.children))
             + CodeFilesIn(Tail(contents))

FetchRequests ==
    {[op |-> "fetchCodeFiles", depth |-> d, files |-> f, dirs |-> n, failEvery |-> m] :
        d \in 0..MaxDepth, f \in 0..MaxTreeFiles, n \in 0..MaxDirs, m \in 0..MaxFailEvery}

(***************************************************************************)
(* generateDiagramFromTextWithAI (generators/langchain-generator.ts).      *)
(***************************************************************************)
\* a call made further down than the tool handler, as recorded in the call log
CalleeCall(name, code, verdict, message) ==
    [call |-> name, code |-> code, by |-> "callee", verdict |-> verdict,
     message |-> message]

\* what the AI chains answer to the tool handlers
HandlerAiOutcomes ==
    {[threw |-> TRUE, text |-> <<>>]} \cup {[threw |-> FALSE, text |-> t] : t \in {txtFlow, txtArrow}}

\* the function without its try block: a failure of the chain is thrown on
generateDiagramFromTextWithAINoCatch(configured, ai, fallback) ==
    IF ~configured
    THEN [threw |-> fallback.threw, text |-> fallback.text, message |-> fallback.message,
          calls |-> <<CalleeCall("generateDiagramFromText", fallback.text,
                                 IF fallback.threw THEN "threw" ELSE "ok", fallback.message)>>]
    ELSE IF ai.threw
    THEN [threw |-> TRUE, text |-> <<>>, message |-> AiFailureMessage,
          calls |-> <<CalleeCall("generateDiagramFromTextWithLangChain", <<>>, "threw",
                                 AiFailureMessage)>>]
    ELSE [threw |-> FALSE, text |-> ai.text, message |-> "",
          calls |-> <<CalleeCall("generateDiagramFromTextWithLangChain", ai.text, "ok", "")>>]

\* generateDiagramFromTextWithAI (generators/langchain-generator.ts): falls back
\* to generateDiagramFromText when unconfigured or when the chain throws
generateDiagramFromTextWithAI(configured, ai, fallback) ==
    IF ~configured
    THEN [threw |-> fallback.threw, text |-> fallback.text, message |-> fallback.message,
          calls |-> <<CalleeCall("generateDiagramFromText", fallback.text,
                                 IF fallback.threw THEN "threw" ELSE "ok", fallback.message)>>]
    ELSE IF ai.threw
    THEN [threw |-> fallback.threw, text |-> fallback.text, message |-> fallback.message,
          calls |-> <<CalleeCall("generateDiagramFromTextWithLangChain", <<>>, "failed",
                                 AiFailureMessage),
                      CalleeCall("generateDiagramFromText", fallback.text,
                                 IF fallback.threw THEN "threw" ELSE "ok", fallback.message)>>]
    ELSE [threw |-> FALSE, text |-> ai.text, message |-> "",
          calls |-> <<CalleeCall("generateDiagramFromTextWithLangChain", ai.text, "ok", "")>>]

\* message of the SyntaxError of new RegExp
RegExpMessage == "Invalid regular expression"
\* what the fallback generateDiagramFromText(diagramType, description) does
FallbackOutcome(diagramType, description) ==
    LET r == generateDiagramFromText(diagramType, description)
    IN  [threw |-> r.threw, text |-> r.value,
         message |-> IF r.threw THEN RegExpMessage ELSE ""]

AiTextRequests ==
    {[op |-> "generateDiagramFromTextWithAI", diagramType |-> t, input |-> x, ai |-> a] :
        t \in {kwFlowchart, kwClassDiagram, kwGantt}, x \in DescriptionTexts,
        a \in HandlerAiOutcomes}

(***************************************************************************)
(* The flowchart of handleGenerateRepositoryEvolutionDiagram (server.ts):  *)
(* the text assembled from the commit list when there is no filepath and   *)
(* diagramType is flowchart.  commits is what git.getCommits returned,     *)
(* newest first; a commit is [sha, files], a file [type].                  *)
(***************************************************************************)
shaLength == 7
evHead ==
    <<"f", "l", "o", "w", "c", "h", "a", "r", "t", " ", "T", "D", "\n", " ", " ", " ", " ",
      "s", "u", "b", "g", "r", "a", "p", "h", " ", "\"", "R", "e", "p", "o", "s", "i", "t",
      "o", "r", "y", " ", "E", "v", "o", "l", "u", "t", "i", "o", "n", "\"", "\n", " ", " ",
      " ", " ", "S", "t", "a", "r", "t", "(", "[", "S", "t", "a", "r", "t", "]", ")", " ", "-",
      "-", ">", " ", "C", "o", "m", "m", "i", "t", "1", "[", "C", "o", "m", "m", "i", "t", ":",
      " ">>
evInitial == <<"i", "n", "i", "t", "i", "a", "l">>
evClose == <<"]">>
evCommit == <<"\n", " ", " ", " ", " ", "C", "o", "m", "m", "i", "t">>
evArrowCommit == <<" ", "-", "-", ">", " ", "C", "o", "m", "m", "i", "t">>
evCommitLabel == <<"[", "C", "o", "m", "m", "i", "t", ":", " ">>
evPlus == <<" ", "-", "-", " ", "\"", "+">>
evMinus == <<" ", "-">>
evTilde == <<" ", "~">>
evChanges == <<"\"", " ", "-", "-", ">", " ", "C", "h", "a", "n", "g", "e", "s">>
evChangesLabel == <<"[", "C", "h", "a", "n", "g", "e", "s", "]">>
evEnd ==
    <<" ", "-", "-", ">", " ", "E", "n", "d", "(", "[", "E", "n", "d", "]", ")", "\n", " ",
      " ", " ", " ", "e", "n", "d">>

\* commit.files.filter(f => f.type === type).length
FilesOfType(commit, type) ==
    Cardinality({k \in DOMAIN commit.files : commit.files[k].type = type})

\* commits[commits.length - 1]?.sha?.substring(0, 7) || 'initial'
OldestSha(commits) ==
    IF commits = <<>> \/ substring(commits[Len(commits)].sha, 0, shaLength) = <<>>
    THEN evInitial
    ELSE substring(commits[Len(commits)].sha, 0, shaLength)

\* the number of the node an iteration starts from
\* commits.length - i
IterationNode(length, i) == length - i

\* the two lines one iteration of the loop adds, i being the 0-based index
EvolutionStep(commits, i) ==
    LET commit == commits[i + 1]
        node == IterationNode(Len(commits), i)
    IN  evCommit \o Decimal(node) \o evArrowCommit \o Decimal(node + 1)
        \o evCommitLabel \o substring(commit.sha, 0, shaLength) \o evClose
        \o evCommit \o Decimal(node + 1)
        \o evPlus \o Decimal(FilesOfType(commit, "add"))
        \o evMinus \o Decimal(FilesOfType(commit, "delete"))
        \o evTilde \o Decimal(FilesOfType(commit, "modify"))
        \o evChanges \o Decimal(node + 1) \o evChangesLabel

\* for (let i = commits.length - 2; i >= 0; i--)
EvolutionFlowchart(commits) ==
    evHead \o OldestSha(commits) \o evClose
    \o Flatten([k \in 1..(Len(commits) - 1) |-> EvolutionStep(commits, Len(commits) - 1 - k)])
    \o evCommit \o Decimal(Len(commits)) \o evEnd

\* commit lists of 0..MaxCommits commits, newest first: the k-th oldest commit
\* has the sha "c0ffee" followed by k and more digits, adds k files, modifies
\* one and deletes one when k is even
MaxCommits == 11
shaPrefix == <<"c", "0", "f", "f", "e", "e">>
shaRest == <<"0", "1", "2", "3", "4", "5", "6", "7", "8", "9">>
CommitNumber(k) ==
    [sha |-> shaPrefix \o Decimal(k) \o shaRest,
     files |-> [j \in 1..k |-> [type |-> "add"]] \o <<[type |-> "modify"]>>
               \o (IF k % 2 = 0 THEN <<[type |-> "delete"]>> ELSE <<>>)]
CommitList(n) == [k \in 1..n |-> CommitNumber(n + 1 - k)]
EvolutionRequests ==
    {[op |-> "generate_repository_evolution_diagram", diagramType |-> kwFlowchart,
      commits |-> CommitList(n)] : n \in 0..MaxCommits}

(***************************************************************************)
(* SpecFn: the exported functions called directly.  Init draws the call    *)
(* (function, argument, behaviour of the collaborators), one action per    *)
(* function applies it.                                                    *)
(***************************************************************************)
NoResponse == [threw |-> FALSE, pending |-> TRUE]

FnRequests ==
    {[op |-> f, input |-> x, chain |-> 1] : f \in StylingFunctions, x \in InputTexts}
    \cup {[op |-> "validateMermaidSyntax", input |-> x, run |-> r] :
            x \in InputTexts, r \in ValidatorRuns}
    \cup {[op |-> "validateAndFixMermaidSyntax", input |-> x, env |-> e] :
            x \in RepairTexts, e \in RepairEnvs}
    \cup {[op |-> f, input |-> x, format |-> fmt, run |-> r] :
            f \in {"exportDiagramToImage"}, x \in {txtFlow, txtArrow},
            fmt \in ImageFormats, r \in ExportRuns}
    \cup {[op |-> f, input |-> x, format |-> fmt, run |-> r] :
            f \in {"exportDiagramInMemory"}, x \in {txtFlow, txtArrow},
            fmt \in ImageFormats, r \in InMemoryRuns}
    \cup {[op |-> "extractEntities", input |-> x] : x \in DescriptionTexts}
    \cup {[op |-> "extractRelationships", input |-> x, entities |-> es] :
            x \in DescriptionTexts, es \in EntityLists}
    \cup {[op |-> "extractRelationships", input |-> x, entities |-> extractEntities(x)] :
            x \in DescriptionTexts}
    \cup {[op |-> "generateClassDiagram", entities |-> es, relationships |-> rels] :
            es \in EntityLists, rels \in RelationshipLists}
    \cup {[op |-> "generateFlowchart", input |-> x] : x \in StepTexts}
    \cup {[op |-> "generateDiagramFromText", diagramType |-> t, input |-> x] :
            t \in DiagramTypes, x \in DescriptionTexts \cup {txtDecisions}}
    \cup GithubRequests
    \cup FetchRequests
    \cup AiTextRequests
    \cup EvolutionRequests

InitFn ==
    /\ apiKey \in BOOLEAN
    /\ request \in FnRequests
    /\ response = NoResponse
    /\ calls = <<>>
    /\ openBrowsers = 0
    /\ tempDirs = 0
    /\ clientDiagram = <<>>
    /\ pc = "call"
    /\ handlerCode = <<>>
    /\ memfs = EmptyVolume

FnStyle ==
    /\ pc = "call"
    /\ request.op \in StylingFunctions
    /\ response' = [threw |-> FALSE, value |-> ApplyStyling(request.op, request.input)]
    /\ pc' = "returned"
    /\ UNCHANGED <<apiKey, memfs, request, calls, openBrowsers, tempDirs, clientDiagram, handlerCode>>

\* the function applied once more, to its own result
FnStyleAgain ==
    /\ pc = "returned"
    /\ request.op \in StylingFunctions
    /\ request.chain < MaxChain
    /\ request' = [request EXCEPT !.input = response.value, !.chain = @ + 1]
    /\ response' = [threw |-> FALSE, value |-> ApplyStyling(request.op, response.value)]
    /\ UNCHANGED <<apiKey, memfs, calls, openBrowsers, tempDirs, clientDiagram, pc, handlerCode>>

FnValidate ==
    /\ pc = "call"
    /\ request.op = "validateMermaidSyntax"
    /\ LET r == validateMermaidSyntax(request.input, request.run)
       IN  /\ response' = [threw |-> r.threw, isValid |-> r.isValid, message |-> r.message]
           /\ openBrowsers' = openBrowsers + r.browsersLeft
    /\ pc' = "returned"
    /\ UNCHANGED <<apiKey, memfs, request, calls, tempDirs, clientDiagram, handlerCode>>

FnValidateAndFix ==
    /\ pc = "call"
    /\ request.op = "validateAndFixMermaidSyntax"
    /\ \E r \in {validateAndFixMermaidSyntax(apiKey, request.input, request.env)} :
           /\ response' = [threw |-> r.threw, value |-> r.value, message |-> r.message]
           /\ calls' = r.calls
           /\ openBrowsers' = openBrowsers + r.browsersLeft
    /\ pc' = "returned"
    /\ UNCHANGED <<apiKey, memfs, request, tempDirs, clientDiagram, handlerCode>>

FnExportToImage ==
    /\ pc = "call"
    /\ request.op = "exportDiagramToImage"
    /\ LET r == exportDiagramToImage(request.input, request.format, request.run)
       IN  /\ response' = [threw |-> r.threw, value |-> r.value, message |-> r.message]
           /\ openBrowsers' = openBrowsers + r.browsersLeft
           /\ tempDirs' = tempDirs + r.tempDirsLeft
    /\ pc' = "returned"
    /\ UNCHANGED <<apiKey, memfs, request, calls, clientDiagram, handlerCode>>

FnExportInMemory ==
    /\ pc = "call"
    /\ request.op = "exportDiagramInMemory"
    /\ LET r == exportDiagramInMemory(request.input, request.format, request.run)
       IN  /\ response' = [threw |-> r.threw, value |-> r.value, message |-> r.message]
           /\ openBrowsers' = openBrowsers + r.browsersLeft
           /\ tempDirs' = tempDirs + r.tempDirsLeft
    /\ pc' = "returned"
    /\ UNCHANGED <<apiKey, memfs, request, calls, clientDiagram, handlerCode>>

FnExtractEntities ==
    /\ pc = "call"
    /\ request.op = "extractEntities"
    /\ response' = [threw |-> FALSE, value |-> extractEntities(request.input)]
    /\ pc' = "returned"
    /\ UNCHANGED <<apiKey, memfs, request, calls, openBrowsers, tempDirs, clientDiagram,
                   handlerCode>>

FnExtractRelationships ==
    /\ pc = "call"
    /\ request.op = "extractRelationships"
    /\ \E r \in {extractRelationships(request.input, request.entities)} :
          /\ response' = [threw |-> r.threw, value |-> r.value]
          /\ calls' = IF r.threw THEN <<>>
                      ELSE <<[call |-> "sentenceSearch", found |-> Len(r.found)]>>
                           \o (IF r.defaulted
                               THEN <<[call |-> "defaultChain", found |-> 0]>>
                               ELSE <<>>)
    /\ pc' = "returned"
    /\ UNCHANGED <<apiKey, memfs, request, openBrowsers, tempDirs, clientDiagram, handlerCode>>

FnGenerateClassDiagram ==
    /\ pc = "call"
    /\ request.op = "generateClassDiagram"
    /\ response' = [threw |-> FALSE,
                    value |-> generateClassDiagram(request.entities, request.relationships)]
    /\ calls' = <<>>
    /\ pc' = "returned"
    /\ UNCHANGED <<apiKey, memfs, request, openBrowsers, tempDirs, clientDiagram, handlerCode>>

FnGenerateFlowchart ==
    /\ pc = "call"
    /\ request.op = "generateFlowchart"
    /\ \E steps \in {extractProcessSteps(request.input)} :
          /\ response' = [threw |-> FALSE, value |-> FlowchartOfSteps(steps)]
          /\ calls' = [k \in 1..Len(steps) |-> [call |-> "node", id |-> NodeId(k - 1)]]
    /\ pc' = "returned"
    /\ UNCHANGED <<apiKey, memfs, request, openBrowsers, tempDirs, clientDiagram, handlerCode>>

FnGenerateDiagramFromText ==
    /\ pc = "call"
    /\ request.op = "generateDiagramFromText"
    /\ \E r \in {generateDiagramFromText(request.diagramType, request.input)} :
          /\ response' = [threw |-> r.threw, value |-> r.value]
          /\ calls' = IF r.threw THEN <<>>
                      ELSE <<[call |-> "render", entities |-> r.entities,
                              relationships |-> r.relationships]>>
    /\ pc' = "returned"
    /\ UNCHANGED <<apiKey, memfs, request, openBrowsers, tempDirs, clientDiagram, handlerCode>>

FnGenerateDiagramFromGithub ==
    /\ pc = "call"
    /\ request.op = "generateDiagramFromGithub"
    /\ response' = [threw |-> FALSE,
                    value |-> generateDiagramFromGithub(request.diagramType, request.owner,
                                                        request.repo, request.repoData)]
    /\ calls' = <<>>
    /\ pc' = "returned"
    /\ UNCHANGED <<apiKey, memfs, request, openBrowsers, tempDirs, clientDiagram, handlerCode>>

\* fetchRepositoryData's call: the top-level listing, the default maxFiles
FnFetchCodeFiles ==
    /\ pc = "call"
    /\ request.op = "fetchCodeFiles"
    /\ \E contents \in {Listing(request.depth, request.files, request.dirs,
                                request.failEvery, <<>>)} :
          /\ response' = [threw |-> FALSE,
                          value |-> fetchCodeFiles(contents, defaultMaxFiles),
                          available |-> CodeFilesIn(contents)]
    /\ pc' = "returned"
    /\ UNCHANGED <<apiKey, memfs, request, calls, openBrowsers, tempDirs, clientDiagram, handlerCode>>

FnGenerateDiagramFromTextWithAI ==
    /\ pc = "call"
    /\ request.op = "generateDiagramFromTextWithAI"
    /\ \E r \in {generateDiagramFromTextWithAI(
                    apiKey, request.ai,
                    FallbackOutcome(request.diagramType, request.input))} :
          /\ response' = [threw |-> r.threw, value |-> r.text, message |-> r.message]
          /\ calls' = r.calls
    /\ pc' = "returned"
    /\ UNCHANGED <<apiKey, memfs, request, openBrowsers, tempDirs, clientDiagram, handlerCode>>

FnEvolutionFlowchart ==
    /\ pc = "call"
    /\ request.op = "generate_repository_evolution_diagram"
    /\ response' = [threw |-> FALSE, value |-> EvolutionFlowchart(request.commits)]
    /\ calls' = <<>>
    /\ pc' = "returned"
    /\ UNCHANGED <<apiKey, memfs, request, openBrowsers, tempDirs, clientDiagram, handlerCode>>

NextFn ==
    \/ FnStyle
    \/ FnStyleAgain
    \/ FnValidate
    \/ FnValidateAndFix
    \/ FnExportToImage
    \/ FnExportInMemory
    \/ FnExtractEntities
    \/ FnExtractRelationships
    \/ FnGenerateClassDiagram
    \/ FnGenerateFlowchart
    \/ FnGenerateDiagramFromText
    \/ FnGenerateDiagramFromGithub
    \/ FnFetchCodeFiles
    \/ FnGenerateDiagramFromTextWithAI
    \/ FnEvolutionFlowchart

SpecFn == InitFn /\ [][NextFn]_vars

(***************************************************************************)
(* Collaborators of the tool handlers.                                     *)
(***************************************************************************)
sigGitHub == <<"g", "i", "t", "h", "u", "b", ".", "c", "o", "m", "/">>
urlGitHub ==
    <<"h", "t", "t", "p", "s", ":", "/", "/", "g", "i", "t", "h", "u", "b", ".", "c", "o", "m",
      "/", "o", "/", "r">>
urlOther ==
    <<"h", "t", "t", "p", "s", ":", "/", "/", "g", "i", "t", "l", "a", "b", ".", "c", "o", "m",
      "/", "o", "/", "r">>
descText == <<"U", "s", "e", "r", " ", "h", "a", "s", " ", "O", "r", "d", "e", "r", ".">>
codeText == <<"c", "l", "a", "s", "s", " ", "A", " ", "{", "}">>
codeTextOld == <<"c", "l", "a", "s", "s", " ", "B", " ", "{", "}">>
pathText == <<"a", ".", "t", "s">>

\* first position at or after i that holds a slash (Len(s) + 1 if none)
RECURSIVE NextSlash(_, _)
NextSlash(s, i) ==
    IF i > Len(s) \/ s[i] = "/" THEN i ELSE NextSlash(s, i + 1)

\* url.match(/github\.com\/([^\/]+)\/([^\/]+)/), leftmost match (utils/github-api.ts)
extractRepoInfoFromUrl(url) ==
    LET starts == {i \in 1..Len(url) :
                      /\ MatchAt(url, sigGitHub, i)
                      /\ LET o == i + Len(sigGitHub)
                             oEnd == NextSlash(url, o)
                         IN  oEnd > o /\ oEnd < Len(url) /\ url[oEnd + 1] # "/"}
    IN  IF starts = {}
        THEN [ok |-> FALSE, owner |-> <<>>, repo |-> <<>>,
              message |-> "Invalid GitHub repository URL"]
        ELSE LET i == CHOOSE j \in starts : \A k \in starts : j <= k
                 o == i + Len(sigGitHub)
                 oEnd == NextSlash(url, o)
             IN  [ok |-> TRUE, owner |-> SubSeq(url, o, oEnd - 1),
                  repo |-> SubSeq(url, oEnd + 1, NextSlash(url, oEnd + 1) - 1),
                  message |-> ""]

\* a call the tool handler makes itself, as recorded in the call log
HandlerCall(name, code, verdict, message) ==
    [call |-> name, code |-> code, by |-> "handler", verdict |-> verdict,
     message |-> message]

\* The text a renderer builds is left open: generateDiagramFromText and
\* generateDiagramFromGithub return some diagram text or throw (new RegExp over
\* entity names in extractRelationships).
GenTexts == {txtFlow, txtArrow, txtUserInit}
GenOutcomes ==
    {[threw |-> TRUE, text |-> <<>>, message |-> "Invalid regular expression"]}
    \cup {[threw |-> FALSE, text |-> t, message |-> ""] : t \in GenTexts}

\* generateDiagramFromCode (generators/langchain-generator.ts)
generateDiagramFromCode(configured, ai) ==
    IF ~configured
    THEN [threw |-> TRUE, text |-> <<>>,
          message |-> "OpenRouter API key not configured. Cannot generate diagram from code.",
          calls |-> <<>>]
    ELSE IF ai.threw
    THEN [threw |-> TRUE, text |-> <<>>, message |-> AiFailureMessage,
          calls |-> <<CalleeCall("generateDiagramFromCodeWithLangChain", <<>>, "threw",
                                 AiFailureMessage)>>]
    ELSE [threw |-> FALSE, text |-> ai.text, message |-> "",
          calls |-> <<CalleeCall("generateDiagramFromCodeWithLangChain", ai.text, "ok", "")>>]

\* generateDiffDiagram (generators/langchain-generator.ts)
generateDiffDiagram(configured, ai) ==
    IF ~configured
    THEN [threw |-> TRUE, text |-> <<>>,
          message |-> "OpenRouter API key not configured. Cannot generate diff diagram.",
          calls |-> <<>>]
    ELSE IF ai.threw
    THEN [threw |-> TRUE, text |-> <<>>, message |-> AiFailureMessage,
          calls |-> <<CalleeCall("generateDiffDiagramWithLangChain", <<>>, "threw",
                                 AiFailureMessage)>>]
    ELSE [threw |-> FALSE, text |-> ai.text, message |-> "",
          calls |-> <<CalleeCall("generateDiffDiagramWithLangChain", ai.text, "ok", "")>>]

\* fetchRepositoryData (utils/github-api.ts): any rejection of a GitHub request
\* is logged and replaced by one fixed error
FetchFailedMessage == "Failed to fetch repository data from GitHub API"
AxiosFailureMessage == "Request failed with status code 404"
fetchRepositoryData(requestOk) ==
    IF requestOk
    THEN [threw |-> FALSE, message |-> "",
          calls |-> <<CalleeCall("apiClient.get", <<>>, "ok", "")>>]
    ELSE [threw |-> TRUE, message |-> FetchFailedMessage,
          calls |-> <<CalleeCall("apiClient.get", <<>>, "threw", AxiosFailureMessage)>>]

(***************************************************************************)
(* The tool handlers of ArchyServer (server.ts).                           *)
(***************************************************************************)
GenerationTools ==
    {"generate_diagram_from_text", "generate_diagram_from_github",
     "generate_diagram_from_text_with_ai", "generate_diagram_from_code",
     "generate_diff_diagram", "generate_repository_evolution_diagram"}
ArgumentTools == GenerationTools \cup {"export_diagram_to_image"}
Tools == ArgumentTools \cup {"list_supported_diagram_types"}

RequiredArgs(tool) ==
    CASE tool \in {"generate_diagram_from_text", "generate_diagram_from_text_with_ai"} ->
            {"description", "diagramType"}
      [] tool \in {"generate_diagram_from_github", "generate_repository_evolution_diagram"} ->
            {"repoUrl", "diagramType"}
      [] tool = "generate_diagram_from_code" -> {"code", "diagramType"}
      [] tool = "generate_diff_diagram" -> {"beforeCode", "afterCode", "diagramType"}
      [] tool = "export_diagram_to_image" -> {"mermaidCode"}
      [] OTHER -> {}

\* An argument is <<>> when the property is absent and <<v>> when it holds v;
\* request.params.arguments as a whole is <<>> when the request has none.
Optional(values) == {<<>>} \cup {<<v>> : v \in values}

\* !value of the handlers' checks: undefined and the empty string are falsy
Falsy(arg) == arg = <<>> \/ arg[1] = <<>>

DiagramTypeArgs == {kwFlowchart, kwGitGraph}

ToolArguments(tool) ==
    CASE tool \in {"generate_diagram_from_text", "generate_diagram_from_text_with_ai"} ->
            {[description |-> d, diagramType |-> t] :
                d \in Optional({txtEmpty, descText}), t \in Optional(DiagramTypeArgs)}
      [] tool = "generate_diagram_from_github" ->
            {[repoUrl |-> u, diagramType |-> t] :
                u \in Optional({urlGitHub, urlOther}), t \in Optional(DiagramTypeArgs)}
      [] tool = "generate_repository_evolution_diagram" ->
            {[repoUrl |-> u, diagramType |-> t, filepath |-> f] :
                u \in Optional({urlGitHub, urlOther}), t \in Optional(DiagramTypeArgs),
                f \in Optional({pathText})}
      [] tool = "generate_diagram_from_code" ->
            {[code |-> c, diagramType |-> t] :
                c \in Optional({codeText}), t \in Optional(DiagramTypeArgs)}
      [] tool = "generate_diff_diagram" ->
            {[beforeCode |-> b, afterCode |-> a, diagramType |-> t] :
                b \in Optional({codeTextOld}), a \in Optional({codeText}),
                t \in Optional({kwFlowchart})}
      [] tool = "export_diagram_to_image" ->
            {[mermaidCode |-> m, format |-> f] :
                m \in Optional({txtFlow} \cup (IF clientDiagram = <<>> THEN {} ELSE {clientDiagram})),
                f \in Optional(ImageFormats)}
      [] OTHER -> {[none |-> <<>>]}

\* the responses a call of a tool can end with
PendingResponse ==
    [kind |-> "pending", isError |-> FALSE, prefix |-> "", cause |-> "", code |-> <<>>]
SuccessResponse(code) ==
    [kind |-> "result", isError |-> FALSE, prefix |-> "", cause |-> "", code |-> code]
McpError(errorCode, message) ==
    [kind |-> "McpError", isError |-> FALSE, prefix |-> errorCode, cause |-> message,
     code |-> <<>>]
TypeErrorRejection ==
    [kind |-> "TypeError", isError |-> FALSE, prefix |-> "",
     cause |-> "Cannot read properties of undefined", code |-> <<>>]

\* the same payload without the isError flag
ErrorResponseNoFlag(prefix, message) ==
    [kind |-> "result", isError |-> FALSE, prefix |-> prefix, cause |-> message,
     code |-> <<>>]
\* the catch block every handler ends with: content text "<prefix><error.message>"
\* and isError: true
ErrorResponse(prefix, message) ==
    [kind |-> "result", isError |-> TRUE, prefix |-> prefix, cause |-> message,
     code |-> <<>>]

ErrorPrefix(tool) ==
    CASE tool = "generate_diagram_from_text" -> "Error generating diagram: "
      [] tool = "generate_diagram_from_github" -> "Error generating diagram from GitHub: "
      [] tool = "generate_diagram_from_text_with_ai" -> "Error generating diagram with AI: "
      [] tool = "generate_diagram_from_code" -> "Error generating diagram from code: "
      [] tool = "generate_diff_diagram" -> "Error generating diff diagram: "
      [] tool = "export_diagram_to_image" -> "Error exporting diagram to image: "
      [] tool = "generate_repository_evolution_diagram" ->
            "Error generating repository evolution diagram: "

Init ==
    /\ apiKey \in BOOLEAN
    /\ request = [op |-> "none", args |-> <<>>]
    /\ response = PendingResponse
    /\ calls = <<>>
    /\ openBrowsers = 0
    /\ tempDirs = 0
    /\ clientDiagram = <<>>
    /\ pc = "idle"
    /\ handlerCode = <<>>
    /\ memfs = EmptyVolume

\* a handler without its try/catch: the error leaves the handler
CaughtRethrown(callName, inner, message) ==
    /\ response' = [kind |-> "Error", isError |-> FALSE, prefix |-> "", cause |-> message,
                    code |-> <<>>]
    /\ calls' = calls \o inner \o <<HandlerCall(callName, <<>>, "threw", message)>>
    /\ pc' = "done"
    /\ UNCHANGED <<apiKey, memfs, request, openBrowsers, tempDirs, clientDiagram, handlerCode>>
\* the handler's catch block is reached with error.message = message, thrown
\* by the call named callName
Caught(callName, inner, message) ==
    /\ response' = ErrorResponse(ErrorPrefix(request.op), message)
    /\ calls' = calls \o inner \o <<HandlerCall(callName, <<>>, "threw", message)>>
    /\ pc' = "done"
    /\ UNCHANGED <<apiKey, memfs, request, openBrowsers, tempDirs, clientDiagram, handlerCode>>

\* the generation call returned text: on to the first validation
Generated(callName, inner, text) ==
    /\ handlerCode' = text
    /\ calls' = calls \o inner \o <<HandlerCall(callName, text, "ok", "")>>
    /\ pc' = "validate"
    /\ UNCHANGED <<apiKey, memfs, request, response, openBrowsers, tempDirs, clientDiagram>>

\* the styling directives are applied a second time before the response
StyleTwiceAndRespond(code, log) ==
    LET styled == applyAllStylingDirectives(code)
        restyled == applyAllStylingDirectives(styled)
    IN  /\ handlerCode' = restyled
        /\ calls' = log \o <<HandlerCall("applyAllStylingDirectives", styled, "ok", ""),
                              HandlerCall("applyAllStylingDirectives", restyled, "ok", "")>>
        /\ response' = SuccessResponse(restyled)
        /\ clientDiagram' = restyled
        /\ pc' = "done"
\* applyAllStylingDirectives, then the success payload goes back to the client;
\* log is the call log up to the styling
StyleAndRespond(code, log) ==
    LET styled == applyAllStylingDirectives(code)
    IN  /\ handlerCode' = styled
        /\ calls' = Append(log, HandlerCall("applyAllStylingDirectives", styled, "ok", ""))
        /\ response' = SuccessResponse(styled)
        /\ clientDiagram' = styled
        /\ pc' = "done"

\* CallToolRequest dispatch and the argument check that opens every handler
Invoke(tool, args) ==
    /\ pc = "idle"
    /\ request' = [op |-> tool, args |-> args]
    /\ calls' = <<>>
    /\ handlerCode' = <<>>
    /\ openBrowsers' = 0
    /\ tempDirs' = 0
    /\ UNCHANGED <<apiKey, memfs, clientDiagram>>
    /\ IF tool \notin Tools
       THEN /\ response' = McpError("MethodNotFound", "Unknown tool")
            /\ pc' = "done"
       ELSE IF tool = "list_supported_diagram_types"
       THEN /\ response' = SuccessResponse(<<"#", " ", "S", "u", "p", "p", "o", "r", "t", "e", "d">>)
            /\ pc' = "done"
       ELSE IF args = <<>>
       THEN /\ response' = TypeErrorRejection
            /\ pc' = "done"
       ELSE IF \E f \in RequiredArgs(tool) : Falsy(args[1][f])
       THEN /\ response' = McpError("InvalidParams", "Missing required parameters")
            /\ pc' = "done"
       ELSE /\ response' = PendingResponse
            /\ pc' = IF tool = "export_diagram_to_image" THEN "export" ELSE "generate"

\* the tools of the const tools array of setupToolHandlers
baseTools ==
    <<"generate_diagram_from_text", "generate_diagram_from_github",
      "list_supported_diagram_types">>
\* the tools pushed if (isApiConfigured())
aiTools ==
    <<"generate_diagram_from_text_with_ai", "generate_diagram_from_code",
      "generate_diff_diagram", "export_diagram_to_image",
      "generate_repository_evolution_diagram">>

\* nothing is pushed onto the tools array
toolsWithoutPush(configured) == baseTools
\* the tools array once setupToolHandlers has run; the constructor runs it, and
\* the API key is read when the configuration module is loaded
tools(configured) == IF configured THEN baseTools \o aiTools ELSE baseTools

\* the ListToolsRequest handler
ListTools ==
    /\ pc = "idle"
    /\ request' = [op |-> "tools/list", args |-> <<>>]
    /\ response' = [kind |-> "result", isError |-> FALSE, prefix |-> "", cause |-> "",
                    code |-> <<>>, tools |-> tools(apiKey)]
    /\ calls' = <<>>
    /\ handlerCode' = <<>>
    /\ openBrowsers' = 0
    /\ tempDirs' = 0
    /\ pc' = "done"
    /\ UNCHANGED <<apiKey, memfs, clientDiagram>>

\* the response has been handed to the transport; the server awaits the next request
AwaitRequest ==
    /\ pc = "done"
    /\ pc' = "idle"
    /\ request' = [op |-> "none", args |-> <<>>]
    /\ response' = PendingResponse
    /\ calls' = <<>>
    /\ handlerCode' = <<>>
    /\ openBrowsers' = 0
    /\ tempDirs' = 0
    /\ UNCHANGED <<apiKey, memfs, clientDiagram>>

\* handleGenerateDiagramFromText up to its first await
GenerateFromText ==
    /\ pc = "generate"
    /\ request.op = "generate_diagram_from_text"
    /\ \E g \in GenOutcomes :
          IF g.threw
          THEN Caught("generateDiagramFromText", <<>>, g.message)
          ELSE Generated("generateDiagramFromText", <<>>, g.text)

\* handleGenerateDiagramFromGithub up to validation
GenerateFromGithub ==
    /\ pc = "generate"
    /\ request.op = "generate_diagram_from_github"
    /\ LET info == extractRepoInfoFromUrl(request.args[1].repoUrl[1])
       IN  IF ~info.ok
           THEN Caught("extractRepoInfoFromUrl", <<>>, info.message)
           ELSE \E requestOk \in BOOLEAN, g \in GenOutcomes :
                   LET data == fetchRepositoryData(requestOk)
                   IN  IF data.threw
                       THEN Caught("fetchRepositoryData", data.calls, data.message)
                       ELSE IF g.threw
                       THEN Caught("generateDiagramFromGithub", data.calls, g.message)
                       ELSE Generated("generateDiagramFromGithub", data.calls, g.text)

\* handleGenerateDiagramFromTextWithAI up to validation
GenerateFromTextWithAI ==
    /\ pc = "generate"
    /\ request.op = "generate_diagram_from_text_with_ai"
    /\ IF ~apiKey
       THEN Caught("isApiConfigured", <<>>,
                   "OpenRouter API key not configured. Cannot use AI-powered diagram generation.")
       ELSE \E ai \in HandlerAiOutcomes, g \in GenOutcomes :
               LET r == generateDiagramFromTextWithAI(apiKey, ai, g)
               IN  IF r.threw
                   THEN Caught("generateDiagramFromTextWithAI", r.calls, r.message)
                   ELSE Generated("generateDiagramFromTextWithAI", r.calls, r.text)

\* handleGenerateDiagramFromCode up to validation
GenerateFromCode ==
    /\ pc = "generate"
    /\ request.op = "generate_diagram_from_code"
    /\ IF ~apiKey
       THEN Caught("isApiConfigured", <<>>,
                   "OpenRouter API key not configured. Cannot use AI-powered code analysis.")
       ELSE \E ai \in HandlerAiOutcomes :
               LET r == generateDiagramFromCode(apiKey, ai)
               IN  IF r.threw
                   THEN Caught("generateDiagramFromCode", r.calls, r.message)
                   ELSE Generated("generateDiagramFromCode", r.calls, r.text)

\* handleGenerateDiffDiagram up to validation
GenerateDiff ==
    /\ pc = "generate"
    /\ request.op = "generate_diff_diagram"
    /\ IF ~apiKey
       THEN Caught("isApiConfigured", <<>>,
                   "OpenRouter API key not configured. Cannot use AI-powered diff visualization.")
       ELSE \E ai \in HandlerAiOutcomes :
               LET r == generateDiffDiagram(apiKey, ai)
               IN  IF r.threw
                   THEN Caught("generateDiffDiagram", r.calls, r.message)
                   ELSE Generated("generateDiffDiagram", r.calls, r.text)

\* what the in-memory git repository yields during one evolution request:
\* whether clone and log resolve, how many versions of the file the history holds
HistoryOutcomes ==
    {[cloneOk |-> FALSE, logOk |-> FALSE, versions |-> 0],
     [cloneOk |-> TRUE, logOk |-> FALSE, versions |-> 0]}
    \cup {[cloneOk |-> TRUE, logOk |-> TRUE, versions |-> n] : n \in 0..2}

\* handleGenerateRepositoryEvolutionDiagram up to validation.  The text
\* assembled from the commit list is left open, like that of the renderers.
GenerateEvolution ==
    /\ pc = "generate"
    /\ request.op = "generate_repository_evolution_diagram"
    /\ LET info == extractRepoInfoFromUrl(request.args[1].repoUrl[1])
           type == request.args[1].diagramType[1]
           withFile == ~Falsy(request.args[1].filepath)
       IN  IF ~info.ok
           THEN Caught("extractRepoInfoFromUrl", <<>>, info.message)
           ELSE \E h \in HistoryOutcomes, ai \in HandlerAiOutcomes, t \in GenTexts :
                   IF ~h.cloneOk
                   THEN Caught("git.clone", <<>>, "clone rejected")
                   ELSE IF ~h.logOk
                   THEN Caught("git.getCommits", <<>>, "No current branch found")
                   ELSE IF withFile /\ type # kwGitGraph /\ h.versions >= 2
                   THEN LET r == generateDiffDiagram(apiKey, ai)
                        IN  IF r.threw
                            THEN Caught("generateDiffDiagram", r.calls, r.message)
                            ELSE Generated("generateDiffDiagram", r.calls, r.text)
                   ELSE IF withFile /\ type # kwGitGraph /\ h.versions = 1
                   THEN LET r == generateDiagramFromCode(apiKey, ai)
                        IN  IF r.threw
                            THEN Caught("generateDiagramFromCode", r.calls, r.message)
                            ELSE Generated("generateDiagramFromCode", r.calls, r.text)
                   ELSE IF withFile /\ type # kwGitGraph
                   THEN Caught("git.getFileEvolution", <<>>,
                               "File not found in repository history")
                   ELSE Generated("git.getCommits", <<>>, t)

\* the validator runs and AI answers the tool handlers are exercised with: a
\* launch that rejects, a parse that accepts or refuses, a close() that rejects
HandlerRuns ==
    {run \in ValidatorRuns :
        run.failAt \in {"launch", "none"} /\ (run.closeOk \/ run.parseOk)}
\* One environment per distinguishable course of validateAndFixMermaidSyntax:
\* the runs of calls that are never made are fixed to the first run.
UnusedRun == [failAt |-> "launch", parseOk |-> FALSE, closeOk |-> TRUE]
RunStops(run) == run.failAt = "none" /\ (run.parseOk \/ ~run.closeOk)
HandlerRepairEnvs ==
    {env \in [v1 : HandlerRuns, ai : HandlerAiOutcomes, v2 : HandlerRuns, v3 : HandlerRuns] :
        /\ RunStops(env.v1) => env.ai = CHOOSE a \in HandlerAiOutcomes : a.threw
        /\ env.ai.threw => env.v2 = UnusedRun
        /\ (RunStops(env.v1) \/ (RunStops(env.v2) /\ env.v2.closeOk)) => env.v3 = UnusedRun}

\* const validationResult = await validateMermaidSyntax(mermaidCode), and the
\* rest of the handler when the code is valid
Validate ==
    /\ pc = "validate"
    /\ \E run \in HandlerRuns :
          LET r == validateMermaidSyntax(handlerCode, run)
              log == Append(calls, [ValidateCall(handlerCode, run, r) EXCEPT !.by = "handler"])
          IN  /\ openBrowsers' = openBrowsers + r.browsersLeft
              /\ IF r.threw
                 THEN /\ response' = ErrorResponse(ErrorPrefix(request.op), r.message)
                      /\ calls' = log
                      /\ pc' = "done"
                      /\ UNCHANGED <<handlerCode, clientDiagram>>
                 ELSE IF r.isValid
                 THEN StyleAndRespond(handlerCode, log)
                 ELSE /\ pc' = "repair"
                      /\ calls' = log
                      /\ UNCHANGED <<response, handlerCode, clientDiagram>>
    /\ UNCHANGED <<apiKey, memfs, request, tempDirs>>

\* mermaidCode = await validateAndFixMermaidSyntax(mermaidCode, ...), and the
\* rest of the handler
Repair ==
    /\ pc = "repair"
    /\ \E env \in HandlerRepairEnvs :
          \E r \in {validateAndFixMermaidSyntax(apiKey, handlerCode, env)} :
          LET log == calls \o r.calls
                     \o <<HandlerCall("validateAndFixMermaidSyntax", r.value,
                                     IF r.threw THEN "threw" ELSE "ok", r.message)>>
          IN  /\ openBrowsers' = openBrowsers + r.browsersLeft
              /\ IF r.threw
                 THEN /\ response' = ErrorResponse(ErrorPrefix(request.op), r.message)
                      /\ calls' = log
                      /\ pc' = "done"
                      /\ UNCHANGED <<handlerCode, clientDiagram>>
                 ELSE StyleAndRespond(r.value, log)
    /\ UNCHANGED <<apiKey, memfs, request, tempDirs>>

\* handleExportDiagramToImage after the argument check
Export ==
    /\ pc = "export"
    /\ LET format == IF request.args[1].format = <<>> THEN "png"
                     ELSE request.args[1].format[1]
           mermaidCodeWithStyling == applyAllStylingDirectives(request.args[1].mermaidCode[1])
       IN  \E run \in ExportRuns :
              LET r == exportDiagramToDataUrl(mermaidCodeWithStyling, format, run)
              IN  /\ calls' = Append(calls,
                                     HandlerCall("exportDiagramToDataUrl", mermaidCodeWithStyling,
                                                 IF r.threw THEN "threw" ELSE "ok", r.message))
                  /\ openBrowsers' = openBrowsers + r.browsersLeft
                  /\ tempDirs' = tempDirs + r.tempDirsLeft
                  /\ response' = IF r.threw
                                 THEN ErrorResponse(ErrorPrefix(request.op), r.message)
                                 ELSE SuccessResponse(r.value)
    /\ pc' = "done"
    /\ UNCHANGED <<apiKey, memfs, request, clientDiagram, handlerCode>>

Next ==
    \/ \E tool \in Tools \cup {"unknown_tool"} :
          \E args \in {<<>>} \cup {<<a>> : a \in ToolArguments(tool)} : Invoke(tool, args)
    \/ GenerateFromText
    \/ GenerateFromGithub
    \/ GenerateFromTextWithAI
    \/ GenerateFromCode
    \/ GenerateDiff
    \/ GenerateEvolution
    \/ Validate
    \/ Repair
    \/ Export
    \/ AwaitRequest
    \/ ListTools

Spec == Init /\ [][Next]_vars

(***************************************************************************)
(* SpecConc: tool invocations of generate_repository_evolution_diagram     *)
(* running concurrently, interleaved at their await points.  Here request, *)
(* pc and response hold one entry per invocation.  Every handler builds    *)
(* its own InMemoryGit, but each of them works on the one volume of the    *)
(* memfs module, in the directory '/repo'.                                 *)
(***************************************************************************)
MaxInvocations == 2
Invocations == 1..MaxInvocations

urlGitHubB ==
    <<"h", "t", "t", "p", "s", ":", "/", "/", "g", "i", "t", "h", "u", "b", ".", "c", "o", "m",
      "/", "o", "/", "s">>

IdleRequest == [op |-> "none", args |-> <<>>]
\* what an invocation has read from the volume so far, and how it ended
NoReads == [kind |-> "pending", isError |-> FALSE, cause |-> "", reads |-> <<>>]

InitConc ==
    /\ apiKey \in BOOLEAN
    /\ request = [i \in Invocations |-> IdleRequest]
    /\ response = [i \in Invocations |-> NoReads]
    /\ calls = <<>>
    /\ openBrowsers = 0
    /\ tempDirs = 0
    /\ clientDiagram = <<>>
    /\ pc = [i \in Invocations |-> "idle"]
    /\ handlerCode = <<>>
    /\ memfs = EmptyVolume

\* the catch block of the handler, for invocation i
ConcCaught(i, message) ==
    /\ response' = [response EXCEPT ![i].kind = "result", ![i].isError = TRUE,
                                    ![i].cause = message]
    /\ pc' = [pc EXCEPT ![i] = "done"]

\* a request arrives; the argument check passes; const git = new InMemoryGit()
ConcInvoke(i) ==
    /\ pc[i] = "idle"
    /\ \E u \in {urlGitHub, urlGitHubB}, f \in Optional({pathText}) :
          request' = [request EXCEPT ![i] =
                         [op |-> "generate_repository_evolution_diagram",
                          args |-> <<[repoUrl |-> <<u>>, diagramType |-> <<kwFlowchart>>,
                                      filepath |-> f]>>]]
    /\ response' = [response EXCEPT ![i] = NoReads]
    /\ pc' = [pc EXCEPT ![i] = "clone"]
    /\ UNCHANGED <<apiKey, memfs, calls, openBrowsers, tempDirs, clientDiagram, handlerCode>>

\* How git.clone({fs: memfs, dir: '/repo', url}) can end.  On a directory that
\* holds a clone of another URL the outcome is left to isomorphic-git: it
\* rewrites the directory, or rejects, or rejects after removing it.
CloneOutcomes(url) ==
    {"written", "rejected"}
    \cup (IF memfs.repo \notin {<<>>, url} THEN {"rejectedAndRemoved"} ELSE {})

\* await git.clone(args.repoUrl)
ConcClone(i) ==
    /\ pc[i] = "clone"
    /\ LET url == request[i].args[1].repoUrl[1]
       IN  \E outcome \in CloneOutcomes(url) :
              CASE outcome = "written" ->
                      /\ memfs' = [repo |-> url, writer |-> i]
                      /\ pc' = [pc EXCEPT ![i] = "getCommits"]
                      /\ UNCHANGED response
                [] outcome = "rejected" ->
                      /\ ConcCaught(i, "clone rejected")
                      /\ UNCHANGED memfs
                [] outcome = "rejectedAndRemoved" ->
                      /\ ConcCaught(i, "clone rejected")
                      /\ memfs' = EmptyVolume
    /\ UNCHANGED <<apiKey, request, calls, openBrowsers, tempDirs, clientDiagram, handlerCode>>

\* one read of the repository at '/repo' by invocation i
VolumeRead(i, callName) ==
    response' = [response EXCEPT ![i].reads =
                    Append(@, [call |-> callName, repo |-> memfs.repo,
                               writer |-> memfs.writer])]

\* const commits = await git.getCommits(commitLimit)
ConcGetCommits(i) ==
    /\ pc[i] = "getCommits"
    /\ IF memfs.repo = <<>>
       THEN ConcCaught(i, "No current branch found")
       ELSE /\ VolumeRead(i, "git.getCommits")
            /\ pc' = [pc EXCEPT ![i] = IF Falsy(request[i].args[1].filepath)
                                       THEN "respond" ELSE "getFileEvolution"]
    /\ UNCHANGED <<apiKey, memfs, request, calls, openBrowsers, tempDirs, clientDiagram,
                   handlerCode>>

\* const fileEvolution = await git.getFileEvolution(args.filepath, commitLimit)
ConcGetFileEvolution(i) ==
    /\ pc[i] = "getFileEvolution"
    /\ IF memfs.repo = <<>>
       THEN ConcCaught(i, "No current branch found")
       ELSE /\ VolumeRead(i, "git.getFileEvolution")
            /\ pc' = [pc EXCEPT ![i] = "respond"]
    /\ UNCHANGED <<apiKey, memfs, request, calls, openBrowsers, tempDirs, clientDiagram,
                   handlerCode>>

\* the diagram is assembled from what was read and returned
ConcRespond(i) ==
    /\ pc[i] = "respond"
    /\ response' = [response EXCEPT ![i].kind = "result"]
    /\ pc' = [pc EXCEPT ![i] = "done"]
    /\ UNCHANGED <<apiKey, memfs, request, calls, openBrowsers, tempDirs, clientDiagram,
                   handlerCode>>

\* the response of invocation i has been sent
ConcAwaitRequest(i) ==
    /\ pc[i] = "done"
    /\ pc' = [pc EXCEPT ![i] = "idle"]
    /\ request' = [request EXCEPT ![i] = IdleRequest]
    /\ response' = [response EXCEPT ![i] = NoReads]
    /\ UNCHANGED <<apiKey, memfs, calls, openBrowsers, tempDirs, clientDiagram, handlerCode>>

NextConc ==
    \/ \E i \in Invocations : ConcInvoke(i)
    \/ \E i \in Invocations : ConcClone(i)
    \/ \E i \in Invocations : ConcGetCommits(i)
    \/ \E i \in Invocations : ConcGetFileEvolution(i)
    \/ \E i \in Invocations : ConcRespond(i)
    \/ \E i \in Invocations : ConcAwaitRequest(i)

SpecConc == InitConc /\ [][NextConc]_vars

(***************************************************************************)
(* Properties.                                                             *)
(***************************************************************************)
FnReturned(op) == pc = "returned" /\ request.op = op

\* C1: every call of validateAndFixMermaidSyntax ends by returning a diagram
\* string, whatever the input, the validator runs and the AI answer are: no
\* exception escapes the repair pipeline.
C1_RepairNeverThrows ==
    FnReturned("validateAndFixMermaidSyntax") =>
        /\ ~response.threw
        /\ response.value \in Seq(STRING)

\* C2: validateAndFixMermaidSyntax returns the original when the original
\* validates, a repaired text only if the validator reported that very text
\* valid during the run, and the original when no stage validated.
C2_ReturnsOnlyValidatedRepair ==
    FnReturned("validateAndFixMermaidSyntax") =>
        LET validated == {calls[i].code : i \in {k \in DOMAIN calls :
                              /\ calls[k].call = "validateMermaidSyntax"
                              /\ calls[k].verdict = "valid"}}
        IN  /\ ~response.threw
            /\ calls[1].verdict = "valid" => response.value = request.input
            /\ response.value # request.input => response.value \in validated
            /\ validated = {} => response.value = request.input

\* C3: each styling function is idempotent: applied to its own result it
\* returns that result unchanged.
C3_StylingIdempotent ==
    (pc = "returned" /\ request.op \in StylingFunctions /\ request.chain > 1) =>
        response.value = request.input

\* C9: validateMermaidSyntax never propagates an exception; when the launch,
\* the page setup or the parse fails it returns isValid = false with a message.
C9_ValidatorNeverThrows ==
    FnReturned("validateMermaidSyntax") =>
        /\ ~response.threw
        /\ (request.run.failAt # "none" \/ ~request.run.parseOk) =>
               (~response.isValid /\ response.message # "")

\* C10: when a validation or export call has returned or thrown, every browser
\* it launched is closed and every temporary directory it made is removed.
C10_ResourcesReleased ==
    (pc = "returned" /\ request.op \in {"validateMermaidSyntax", "exportDiagramToImage",
                                         "exportDiagramInMemory"}) =>
        (openBrowsers = 0 /\ tempDirs = 0)

\* a tool invocation has ended, and its required arguments were present
ArgumentsPresent ==
    /\ request.op \in ArgumentTools
    /\ request.args # <<>>
    /\ \A f \in RequiredArgs(request.op) : ~Falsy(request.args[1][f])
HandlerEnded == pc = "done" /\ ArgumentsPresent

\* the text handed to the image renderer by the export handler
RenderedCodes ==
    {calls[i].code : i \in {k \in DOMAIN calls : calls[k].call = "exportDiagramToDataUrl"}}

\* C4: when the styled diagram that a generation tool returned is passed on to
\* export_diagram_to_image, the text handed to the image renderer carries the
\* styling prologue at most once.
C4_StyledOnceThroughExport ==
    (pc = "done" /\ request.op = "export_diagram_to_image" /\ ArgumentsPresent
        /\ clientDiagram # <<>> /\ request.args[1].mermaidCode[1] = clientDiagram) =>
        \A code \in RenderedCodes : Occurrences(code, comprehensiveDirective) <= 1

\* C5: a call of an argument-taking tool that lacks a required argument ends
\* with an InvalidParams protocol error, and no renderer, validator, AI
\* backend, network fetch or git clone has been invoked by then.
C5_MissingArgumentIsInvalidParams ==
    (pc = "done" /\ request.op \in ArgumentTools /\ ~ArgumentsPresent) =>
        /\ response.kind = "McpError"
        /\ response.prefix = "InvalidParams"
        /\ calls = <<>>

\* the failures of collaborators recorded during the invocation
FailureCalls == {i \in DOMAIN calls : calls[i].verdict \in {"threw", "failed"}}
\* the exception that reached the handler's catch block, if any
HandlerThrows == {i \in DOMAIN calls : calls[i].by = "handler" /\ calls[i].verdict = "threw"}

\* C6 as stated: with the required arguments present, any failure raised by a
\* collaborator ends the invocation with a response flagged isError = true
\* that carries the message of that failure, never with an unhandled rejection.
C6_EveryFailureFlaggedWithOrigin ==
    HandlerEnded =>
        /\ response.kind = "result"
        /\ \A i \in FailureCalls :
              /\ response.isError
              /\ (\A j \in FailureCalls : i <= j) => response.cause = calls[i].message

\* C6 amended: with the required arguments present, every exception that
\* reaches the handler body is caught there and returned as a response flagged
\* isError = true whose text is the handler's prefix followed by the message
\* of that exception; a response is flagged only in that case; no handler ends
\* with an unhandled rejection.
C6_HandlerCatchesWhatReachesIt ==
    HandlerEnded =>
        /\ response.kind = "result"
        /\ \A i \in HandlerThrows :
              /\ i = Len(calls)
              /\ response.isError
              /\ response.prefix = ErrorPrefix(request.op)
              /\ response.cause = calls[i].message
        /\ response.isError => HandlerThrows # {}

\* a GitHub fetch failed, fetchRepositoryData rejected into the handler, and
\* the handler answered with the flagged response
C6_FetchFailureCaught ==
    /\ HandlerEnded
    /\ request.op = "generate_diagram_from_github"
    /\ \E i \in HandlerThrows : calls[i].call = "fetchRepositoryData"
    /\ \E i \in FailureCalls : calls[i].call = "apiClient.get"
    /\ response.isError

AiOnlyTools == {"generate_diagram_from_code", "generate_diff_diagram"}

\* C7: an AI-only tool called with valid arguments while no AI backend is
\* configured answers with a response flagged isError = true, not with an
\* exception.
C7_AiOnlyToolUnconfiguredIsFlagged ==
    (HandlerEnded /\ request.op \in AiOnlyTools /\ ~apiKey) =>
        /\ response.kind = "result"
        /\ response.isError

\* generate_diff_diagram has answered with valid arguments and no API key
C7_DiffToolAnsweredUnconfigured ==
    /\ HandlerEnded
    /\ request.op = "generate_diff_diagram"
    /\ ~apiKey
    /\ response.kind = "result"
    /\ response.cause = "OpenRouter API key not configured. Cannot use AI-powered diff visualization."

\* C8: generate_diagram_from_text_with_ai called with valid arguments while no
\* AI backend is configured falls back to rule-based generation: the response
\* is a success payload carrying the diagram generateDiagramFromText built.
C8_TextWithAiFallsBackSilently ==
    (HandlerEnded /\ request.op = "generate_diagram_from_text_with_ai" /\ ~apiKey) =>
        /\ response.kind = "result"
        /\ ~response.isError
        /\ \E i \in DOMAIN calls : calls[i].call = "generateDiagramFromText"

\* C11: concurrent tool invocations share no mutable state: the repository
\* and commit data an invocation reads while building its result were written
\* by that invocation alone.
C11_ReadsOnlyOwnWrites ==
    \A i \in Invocations :
        \A k \in DOMAIN response[i].reads : response[i].reads[k].writer = i

\* C12: extractEntities includes every whitespace-delimited token that starts
\* with an uppercase letter followed by lowercase letters, its trailing
\* punctuation stripped; for "The User sends a Request to the Server." the
\* result includes "User", "Request" and "Server".
C12_CapitalizedTokensExtracted ==
    FnReturned("extractEntities") =>
        LET words == WordsFrom(request.input, 1)
        IN  /\ \A k \in DOMAIN words :
                  (Len(words[k]) >= 2 /\ words[k][1] \in UpperChars
                      /\ words[k][2] \in LowerChars) =>
                      CleanWord(words[k]) \in Range(response.value)
            /\ request.input = txtScenario =>
                  {entUser, entRequest, entServer} \subseteq Range(response.value)

\* the default branch of extractRelationships ran during the call
ChainGenerated == \E k \in DOMAIN calls : calls[k].call = "defaultChain"

\* C13: extractRelationships generates the default chain exactly when the
\* sentence search found no relationship and there are at least 2 entities;
\* the chain then holds n-1 relationships, the i-th from entity i to entity
\* i+1, all with one label; an empty result implies fewer than 2 entities.
C13_DefaultChainExactlyWhenNoneFound ==
    (FnReturned("extractRelationships") /\ ~response.threw) =>
        LET entities == request.entities
            rels == response.value
        IN  /\ ChainGenerated <=> (calls[1].found = 0 /\ Len(entities) >= 2)
            /\ ChainGenerated =>
                  /\ Len(rels) = Len(entities) - 1
                  /\ \A i \in DOMAIN rels :
                        /\ rels[i].from = entities[i]
                        /\ rels[i].to = entities[i + 1]
                        /\ rels[i].label = rels[1].label
            /\ rels = <<>> => Len(entities) < 2

\* the default chain was generated for three entities
C13_ChainOfThreeEntities ==
    /\ FnReturned("extractRelationships")
    /\ ~response.threw
    /\ ChainGenerated
    /\ Len(request.entities) = 3
    /\ Len(response.value) = 2

\* the line the class renderer is to emit for a relationship drawn with arrow
ArrowLine(rel, arrow) ==
    strIndent \o rel.from \o arrow \o rel.to \o strColon \o rel.label \o strNewline

\* C14: generateClassDiagram emits the inheritance arrow <|-- for a
\* relationship labelled exactly "extends", the implementation arrow <|.. for
\* "implements" and the containment arrow *-- for "has", between that pair.
C14_ArrowFollowsLabel ==
    FnReturned("generateClassDiagram") =>
        \A k \in DOMAIN request.relationships :
            LET rel == request.relationships[k]
            IN  /\ rel.label = strExtends =>
                      Includes(response.value, ArrowLine(rel, arrowInheritance))
                /\ rel.label = strImplements =>
                      Includes(response.value, ArrowLine(rel, arrowImplementation))
                /\ rel.label = strHas =>
                      Includes(response.value, ArrowLine(rel, arrowContainment))

\* a class diagram was rendered for an "implements" and a "has" relationship
C14_ImplementsAndHasRendered ==
    /\ FnReturned("generateClassDiagram")
    /\ \E k \in DOMAIN request.relationships : request.relationships[k].label = strImplements
    /\ \E k \in DOMAIN request.relationships : request.relationships[k].label = strHas
    /\ Includes(response.value, arrowImplementation)
    /\ Includes(response.value, arrowContainment)

\* the node lines of a flowchart whose i-th step carries the i-th letter
LetteredNodeLines(steps) ==
    Flatten([k \in 1..Len(steps) |->
                strIndent \o <<UpperSeq[k]>> \o fcBracketOpen \o steps[k] \o fcBracketClose])

\* C15: for a description that yields n <= 26 process steps generateFlowchart
\* gives the steps the letters A, B, C, ... in step order, pairwise distinct;
\* with exactly 26 steps no identifier is reused.
C15_NodeIdsDistinctLetters ==
    (FnReturned("generateFlowchart") /\ Len(calls) >= 1 /\ Len(calls) <= Len(UpperSeq)) =>
        /\ \A i, j \in DOMAIN calls : i # j => calls[i].id # calls[j].id
        /\ \A i \in DOMAIN calls : calls[i].id = <<UpperSeq[i]>>
        /\ StartsWith(response.value,
                      fcHeader \o LetteredNodeLines(extractProcessSteps(request.input)))

\* a flowchart of exactly 26 steps was rendered, the last one as node Z
C15_TwentySixSteps ==
    /\ FnReturned("generateFlowchart")
    /\ Len(calls) = Len(UpperSeq)
    /\ calls[Len(UpperSeq)].id = <<"Z">>
    /\ Includes(response.value, <<" ", " ", " ", " ", "Z", "[", "g", "o", "]", "\n">>)

\* the diagram types whose renderer returns a placeholder
FixedTemplateTypes ==
    {kwStateDiagram, kwUserJourney, kwGantt, kwPieChart, kwQuadrantChart,
     kwRequirementDiagram, kwGitGraph, kwC4Diagram}

\* C16: for stateDiagram, userJourney, gantt, pieChart, quadrantChart,
\* requirementDiagram, gitGraph and c4Diagram generateDiagramFromText returns
\* the same text for every description, the one it returns for the empty
\* description; for pieChart that text begins with "pie title".
C16_TemplateIndependentOfDescription ==
    (FnReturned("generateDiagramFromText") /\ request.diagramType \in FixedTemplateTypes) =>
        /\ ~response.threw
        /\ response.value = generateDiagramFromText(request.diagramType, txtEmpty).value
        /\ request.diagramType = kwPieChart => StartsWith(response.value, <<"p", "i", "e", " ", "t", "i", "t", "l", "e">>)

\* C17: for a diagramType that is none of the 12 recognized names,
\* generateDiagramFromText returns the two-node flowchart with the note naming
\* the unsupported type and generateDiagramFromGithub returns the repository
\* flowchart; neither raises an error.
C17_UnrecognizedTypeFallsBack ==
    /\ (FnReturned("generateDiagramFromText") /\ request.diagramType \notin DiagramTypeKeywords)
           => /\ ~response.threw
              /\ response.value = UnsupportedTypeDiagram(request.diagramType)
    /\ (FnReturned("generateDiagramFromGithub")
           /\ request.diagramType \notin DiagramTypeKeywords)
           => /\ ~response.threw
              /\ response.value
                    = generateRepoFlowchart(request.owner, request.repo, request.repoData)

\* C18: tools/list advertises generate_diagram_from_text_with_ai,
\* generate_diagram_from_code, generate_diff_diagram, export_diagram_to_image
\* and generate_repository_evolution_diagram when an OpenRouter API key is
\* configured, and generate_diagram_from_text, generate_diagram_from_github
\* and list_supported_diagram_types in every configuration.
C18_ToolsAdvertised ==
    (pc = "done" /\ request.op = "tools/list") =>
        /\ {"generate_diagram_from_text", "generate_diagram_from_github",
            "list_supported_diagram_types"} \subseteq Range(response.tools)
        /\ apiKey =>
              {"generate_diagram_from_text_with_ai", "generate_diagram_from_code",
               "generate_diff_diagram", "export_diagram_to_image",
               "generate_repository_evolution_diagram"} \subseteq Range(response.tools)

\* tools/list was answered by a server that has an API key
C18_ListedWithApiKey ==
    /\ pc = "done"
    /\ request.op = "tools/list"
    /\ apiKey
    /\ Len(response.tools) = Len(baseTools) + Len(aiTools)

\* positions of the calls of the AI backend in the log of the run
AiRepairCalls == {k \in DOMAIN calls : calls[k].call = "fixMermaidSyntaxWithLangChain"}
\* positions of the validation that closes the rule-based repair: the only
\* validation that follows another validation
RuleRepairCalls ==
    {k \in DOMAIN calls : /\ k > 1
                          /\ calls[k].call = "validateMermaidSyntax"
                          /\ calls[k - 1].call = "validateMermaidSyntax"}

\* C19: validateAndFixMermaidSyntax runs its stages in the order
\* validate-original, AI repair, rule-based repair; the AI backend is invoked
\* only if the original was found invalid and an AI backend is configured;
\* the rule-based repair runs only if the AI stage was skipped, failed or
\* produced text that did not validate.
C19_StagesInOrder ==
    FnReturned("validateAndFixMermaidSyntax") =>
        /\ calls[1].call = "validateMermaidSyntax"
        /\ calls[1].code = request.input
        /\ \A k \in AiRepairCalls :
              /\ k = 2
              /\ calls[1].verdict \in {"invalid", "failed"}
              /\ apiKey
        /\ \A k \in RuleRepairCalls :
              /\ calls[1].verdict \in {"invalid", "failed"}
              /\ \A a \in AiRepairCalls : a < k
              /\ \/ AiRepairCalls = {}
                 \/ \E a \in AiRepairCalls : calls[a].verdict = "failed"
                 \/ calls[k - 1].verdict # "valid"
        /\ Cardinality(AiRepairCalls) <= 1
        /\ Cardinality(RuleRepairCalls) <= 1

\* all three stages ran: the original and the text of the AI were found
\* invalid, then the rule-based repair was validated
C19_AllThreeStages ==
    /\ FnReturned("validateAndFixMermaidSyntax")
    /\ Len(calls) = 4
    /\ AiRepairCalls = {2}
    /\ calls[2].verdict = "ok"
    /\ calls[3].verdict = "invalid"
    /\ RuleRepairCalls = {4}

\* positions in the call log of the steps the handler itself takes
HandlerSteps(names) ==
    {k \in DOMAIN calls : calls[k].by = "handler" /\ calls[k].call \in names}
ValidateSteps == HandlerSteps({"validateMermaidSyntax"})
RepairSteps == HandlerSteps({"validateAndFixMermaidSyntax"})
StylingSteps == HandlerSteps({"applyAllStylingDirectives"})
GenerateSteps ==
    {k \in DOMAIN calls :
        /\ calls[k].by = "handler"
        /\ calls[k].call \notin {"validateMermaidSyntax", "validateAndFixMermaidSyntax",
                                 "applyAllStylingDirectives"}}
Succeeded == response.kind = "result" /\ ~response.isError

\* C20: every generation tool handler takes its steps in the order generate,
\* validate, repair pipeline, styling, respond; the repair pipeline is invoked
\* only if the first validation failed; styling is applied exactly once per
\* invocation, after the repair and only on the success path.
C20_HandlerStepsInOrder ==
    (HandlerEnded /\ request.op \in GenerationTools) =>
        /\ Cardinality(ValidateSteps) <= 1
        /\ Cardinality(RepairSteps) <= 1
        /\ \A g \in GenerateSteps, v \in ValidateSteps : g < v
        /\ \A v \in ValidateSteps, r \in RepairSteps : v < r
        /\ \A k \in ValidateSteps \cup RepairSteps, st \in StylingSteps : k < st
        /\ RepairSteps # {} =>
              \E v \in ValidateSteps : calls[v].verdict \in {"invalid", "failed"}
        /\ Succeeded =>
              /\ StylingSteps = {Len(calls)}
              /\ ValidateSteps # {}
              /\ response.code = calls[Len(calls)].code
        /\ ~Succeeded => StylingSteps = {}

\* a handler generated, found the text invalid, repaired it, styled the
\* repaired text and answered
C20_RepairedThenStyled ==
    /\ HandlerEnded
    /\ request.op \in GenerationTools
    /\ Succeeded
    /\ RepairSteps # {}
    /\ StylingSteps = {Len(calls)}

\* the rule-fixed code the pipeline handed to its last validation
RuleFixedCodes == {calls[k].code : k \in RuleRepairCalls}
strParticipantWord == SubSeq(strParticipant, 1, Len(strParticipant) - 1)
strActorWord == SubSeq(strActor, 1, Len(strActor) - 1)
\* the keyword line the claim names for a code, the words participant and
\* actor tested with (spaced) or without the space that follows them
InferredType(code, spaced) ==
    IF StartsWithDiagramType(code) THEN <<>>
    ELSE IF Includes(code, strArrow) THEN preFlowchart
    ELSE IF Includes(code, strClass) THEN preClassDiagram
    ELSE IF \/ Includes(code, IF spaced THEN strParticipant ELSE strParticipantWord)
            \/ Includes(code, IF spaced THEN strActor ELSE strActorWord)
         THEN preSequenceDiagram
    ELSE IF Includes(code, strState) THEN preStateDiagram
    ELSE preFlowchart
RuleFixedAs(spaced) ==
    FnReturned("validateAndFixMermaidSyntax") =>
        \A fixed \in RuleFixedCodes :
            fixed = AddMissingEnd(NormalizeNodeLabels(
                        InferredType(request.input, spaced) \o request.input))

\* C21 as stated: the rule-based repair prepends a diagram-type keyword only
\* when the code does not start with a recognized type keyword, chosen in the
\* order: a relation arrow gives flowchart, else "class " gives classDiagram,
\* else the word participant or the word actor gives sequenceDiagram, else
\* "state " gives the state-diagram keyword, else flowchart.
C21_KeywordInferredInOrder == RuleFixedAs(FALSE)

\* C21 amended: the same order, with sequenceDiagram chosen only when the code
\* contains "participant " or "actor " with the space that follows the word.
C21_KeywordInferredWithSpace == RuleFixedAs(TRUE)

\* the rule-based repair met a code with a class and an actor declaration
\* and no arrow, and made it a class diagram
C21_ClassBeforeActor ==
    /\ FnReturned("validateAndFixMermaidSyntax")
    /\ request.input = txtClassActor
    /\ RuleFixedCodes = {preClassDiagram \o txtClassActor}

\* positions where word stands as a token of its own in code: at a line start
\* or after white space, and followed by white space or the end of the code
TokenPositions(code, word) ==
    {i \in DOMAIN code :
        /\ MatchAt(code, word, i)
        /\ i = 1 \/ code[i - 1] \in SpaceChars
        /\ i + Len(word) > Len(code) \/ code[i + Len(word)] \in SpaceChars}
\* a subgraph block lacks its end: more blocks are opened than closed
LacksEnd(code) ==
    Cardinality(TokenPositions(code, strSubgraph)) > Cardinality(TokenPositions(code, strEnd))

\* C22: the rule-based repair appends a closing "end" whenever the code
\* contains a subgraph block that lacks its end, and appends nothing when
\* every subgraph block is already closed.
C22_EndAppendedWhenLacking ==
    FnReturned("validateAndFixMermaidSyntax") =>
        \A fixed \in RuleFixedCodes :
            \E before \in {NormalizeNodeLabels(AddMissingDiagramType(request.input))} :
                fixed = IF LacksEnd(before) THEN before \o strNlEnd ELSE before

\* the four notations of the class diagram and the label substrings that
\* select one of them
ClassNotations == {arrowContainment, arrowInheritance, arrowImplementation, arrowDependency}
RecognizedLabel(label) ==
    \E tag \in {strHas, strContains, strInherits, strExtends, strImplements, strUses,
                strDepends} : Includes(label, tag)

\* C23: generateClassDiagram emits for every relationship exactly one of the
\* four notations *--, <|--, <|.., -->, selected by label substring, and a
\* label that matches none of the recognized substrings yields the default
\* association/dependency notation -->.
C23_OneOfFourNotations ==
    FnReturned("generateClassDiagram") =>
        \A k \in DOMAIN request.relationships :
            LET rel == request.relationships[k]
            IN  /\ Cardinality({a \in ClassNotations :
                                 Includes(response.value, ArrowLine(rel, a))}) = 1
                /\ ~RecognizedLabel(rel.label) =>
                      Includes(response.value, ArrowLine(rel, arrowDependency))

\* the edges of a rendered flowchart drawn with one connector: the pairs
\* <<source, target>> of the lines "    source connector target"
EdgesWith(diagram, connector) ==
    {<<<<diagram[i + Len(strIndent)]>>,
       <<diagram[i + Len(strIndent) + Len(connector) + 1]>>>> :
        i \in {j \in DOMAIN diagram :
                 /\ j = 1 \/ diagram[j - 1] = "\n"
                 /\ MatchAt(diagram, strIndent, j)
                 /\ MatchAt(diagram, connector, j + Len(strIndent) + 1)
                 /\ MatchAt(diagram, strNewline, j + Len(strIndent) + Len(connector) + 2)}}
HasDecisionKeyword(step) ==
    \E keyword \in {strIf, strDecide, strCheck} : Includes(toLowerCase(step), keyword)

\* C24: in generateFlowchart with n >= 1 extracted steps, every step that is
\* not the last gets, if its text contains a decision keyword (if, decide,
\* check), a "Yes" edge to the next step and a "No" edge to the step after
\* that exactly when that step exists, and otherwise a single unlabeled edge
\* to the next step; the last step has no outgoing edge and every edge target
\* is a declared node.
C24_EdgesFollowSteps ==
    (FnReturned("generateFlowchart") /\ Len(calls) >= 1) =>
        \E steps \in {extractProcessSteps(request.input)} :
            LET n == Len(steps)
                id(k) == calls[k].id
                yes == EdgesWith(response.value, fcYes)
                no == EdgesWith(response.value, fcNo)
                plain == EdgesWith(response.value, fcTo)
            IN  /\ Len(calls) = n
                /\ yes = {<<id(k), id(k + 1)>> : k \in {j \in 1..(n - 1) :
                                                         HasDecisionKeyword(steps[j])}}
                /\ no = {<<id(k), id(k + 2)>> : k \in {j \in 1..(n - 2) :
                                                        HasDecisionKeyword(steps[j])}}
                /\ plain = {<<id(k), id(k + 1)>> : k \in {j \in 1..(n - 1) :
                                                           ~HasDecisionKeyword(steps[j])}}
                /\ \A e \in yes \cup no \cup plain :
                      /\ e[1] # id(n)
                      /\ \E k \in 1..n : e[2] = id(k)

\* a flowchart was rendered in which one decision step has a "Yes" and a "No"
\* edge and a later decision step, the last but one, has only its "Yes" edge
C24_DecisionWithAndWithoutNo ==
    /\ FnReturned("generateFlowchart")
    /\ Len(calls) >= 3
    /\ \E e \in EdgesWith(response.value, fcNo) : e[1] = calls[1].id
    /\ \E e \in EdgesWith(response.value, fcYes) :
          /\ e[1] = calls[Len(calls) - 1].id
          /\ \A f \in EdgesWith(response.value, fcNo) : f[1] # e[1]

\* C25: fetchCodeFiles returns at most 20 code files for any repository tree
\* (any nesting of directories and any number of files) and any pattern of
\* per-file or per-directory fetch failures.
C25_AtMostTwentyCodeFiles ==
    FnReturned("fetchCodeFiles") => Len(response.value) <= 20

\* the walk of a nested tree with rejected requests and more than 20 code
\* files stopped at 20 files, some of them from a subdirectory of a
\* subdirectory
C25_NestedTreeCutAtTwenty ==
    /\ FnReturned("fetchCodeFiles")
    /\ request.depth = 2
    /\ request.failEvery > 0
    /\ response.available > 20
    /\ Len(response.value) = 20
    /\ \E k \in DOMAIN response.value :
          Cardinality({i \in DOMAIN response.value[k].path :
                          response.value[k].path[i] = "/"}) = 2

\* the extraction and rendering functions of a text description
TextFunctions ==
    {"extractEntities", "extractRelationships", "generateFlowchart", "generateClassDiagram",
     "generateDiagramFromText"}

\* C26: extractEntities, extractRelationships, extractProcessSteps and every
\* text renderer return normally for every string input, including text whose
\* capitalized tokens contain regular-expression metacharacters; none of
\* them raises an exception.
C26_TextFunctionsReturn ==
    (pc = "returned" /\ request.op \in TextFunctions) => ~response.threw

\* positions in the call log of the calls of the AI backend for a diagram
AiGenerationCalls ==
    {k \in DOMAIN calls : calls[k].call = "generateDiagramFromTextWithLangChain"}

\* C27: generateDiagramFromTextWithAI never raises because of the AI backend:
\* if the backend is unconfigured or the AI call fails, it returns exactly
\* generateDiagramFromText(diagramType, description); the AI backend is called
\* at most once and not at all when unconfigured.
C27_FallsBackToTextGenerator ==
    FnReturned("generateDiagramFromTextWithAI") =>
        \E text \in {generateDiagramFromText(request.diagramType, request.input)} :
            /\ Cardinality(AiGenerationCalls) <= 1
            /\ ~apiKey => AiGenerationCalls = {}
            /\ (~apiKey \/ request.ai.threw) =>
                  /\ response.threw = text.threw
                  /\ response.value = text.value
            /\ response.threw => text.threw /\ response.message # AiFailureMessage

\* the AI backend was configured, its call failed, and the function returned
\* the class diagram of the text generator
C27_AiFailedFallbackReturned ==
    /\ FnReturned("generateDiagramFromTextWithAI")
    /\ apiKey
    /\ request.ai.threw
    /\ request.diagramType = kwClassDiagram
    /\ AiGenerationCalls = {1}
    /\ ~response.threw
    /\ StartsWith(response.value, kwClassDiagram)
    /\ response.value = generateDiagramFromText(kwClassDiagram, request.input).value

\* positions in the call log of the validator invocations
ValidatorCalls == {k \in DOMAIN calls : calls[k].call = "validateMermaidSyntax"}

\* C28: a single run of validateAndFixMermaidSyntax makes at most three
\* validator invocations (original, AI-fixed, rule-fixed) and at most one
\* AI-backend invocation, whatever the validator and AI outcomes are; there
\* is no retry loop.
C28_BoundedInvocations ==
    FnReturned("validateAndFixMermaidSyntax") =>
        /\ Cardinality(ValidatorCalls) <= 3
        /\ Cardinality(AiRepairCalls) <= 1
        /\ Len(calls) = Cardinality(ValidatorCalls) + Cardinality(AiRepairCalls)
        /\ ~apiKey => Cardinality(ValidatorCalls) <= 2

\* a run made three validator invocations and one AI invocation: the text
\* of the AI and the rule-fixed code were both found invalid, and the
\* original code came back
C28_ThreeValidationsAllInvalid ==
    /\ FnReturned("validateAndFixMermaidSyntax")
    /\ Cardinality(ValidatorCalls) = 3
    /\ Cardinality(AiRepairCalls) = 1
    /\ \A k \in ValidatorCalls : calls[k].verdict = "invalid"
    /\ ~response.threw
    /\ response.value = request.input

\* the k-th oldest commit of a list that is kept newest first
KthOldest(commits, k) == commits[Len(commits) + 1 - k]
evIndent == <<"\n", " ", " ", " ", " ">>
evStartEdge ==
    <<" ", " ", " ", " ", "S", "t", "a", "r", "t", "(", "[", "S", "t", "a", "r", "t", "]", ")",
      " ", "-", "-", ">", " ", "C", "o", "m", "m", "i", "t", "1", "[">>
evSpaceCommit == <<" ", "C", "o", "m", "m", "i", "t">>
evBracket == <<"[">>
evEndEdge == <<" ", "-", "-", ">", " ", "E", "n", "d", "(", "[", "E", "n", "d", "]", ")", "\n">>
\* node Commit k is declared with the label of the k-th oldest commit
CommitDeclared(diagram, commits, k) ==
    Includes(diagram, evSpaceCommit \o Decimal(k) \o evCommitLabel
                      \o substring(KthOldest(commits, k).sha, 0, 7) \o evClose)
\* the edge from node Commit k to node Commit k + 1
CommitEdge(diagram, k) ==
    Includes(diagram, evIndent \o <<"C", "o", "m", "m", "i", "t">> \o Decimal(k)
                      \o evArrowCommit \o Decimal(k + 1) \o evBracket)

\* C29: for generate_repository_evolution_diagram with diagramType flowchart,
\* no filepath and a commit list of n >= 1 commits, the generated flowchart
\* declares exactly one labelled Commit node per commit and links them into
\* a single chain Start, Commit1, ..., Commit n, End in oldest-to-newest
\* order: every commit node is reachable from Start, End is reachable from
\* every commit node, and every edge endpoint is a declared node.
C29_CommitsChained ==
    (FnReturned("generate_repository_evolution_diagram") /\ Len(request.commits) >= 1) =>
        LET n == Len(request.commits)
        IN  /\ Includes(response.value, evStartEdge)
            /\ \A k \in 1..n : CommitDeclared(response.value, request.commits, k)
            /\ \A k \in 1..(n - 1) : CommitEdge(response.value, k)
            /\ Includes(response.value,
                        evIndent \o <<"C", "o", "m", "m", "i", "t">> \o Decimal(n) \o evEndEdge)
            /\ ~Includes(response.value, evSpaceCommit \o Decimal(n + 1) \o evBracket)

\* the number of lines of a text
LineCount(text) == Cardinality({i \in DOMAIN text : text[i] = "\n"})

\* C30: within generateDiagramFromText the relationship list handed to the
\* sequence and ER renderers is non-empty whenever at least two entities were
\* extracted, so on this path those renderers never emit their own default
\* request/response exchange or default one-to-many chain.
C30_RenderersGetRelationships ==
    (/\ FnReturned("generateDiagramFromText")
     /\ request.diagramType \in {kwSequenceDiagram, kwEntityRelationshipDiagram}) =>
        \A k \in DOMAIN calls :
            Len(calls[k].entities) >= 2 =>
                /\ Len(calls[k].relationships) >= 1
                /\ ~Includes(response.value, sqActivate)
                /\ ~Includes(response.value, sqDeactivate)
                /\ request.diagramType = kwEntityRelationshipDiagram =>
                      LineCount(response.value) = 1 + Len(calls[k].relationships)

\* the sequence renderer was handed two or more entities and the default chain of
\* extractRelationships, no relationship having been found in the text
C30_DefaultChainHandedToSequence ==
    /\ FnReturned("generateDiagramFromText")
    /\ request.diagramType = kwSequenceDiagram
    /\ ~response.threw
    /\ Len(calls) = 1
    /\ Len(calls[1].entities) >= 2
    /\ calls[1].relationships = DefaultChain(request.input, calls[1].entities)
    /\ extractRelationships(request.input, calls[1].entities).found = <<>>

====
